---------------------------- MODULE Spec2Model ----------------------------
(***************************************************************************)
(* PicStudio: the image editor's state machine.                            *)
(*                                                                         *)
(*   src/App.tsx                      the app shell: state, effects,       *)
(*                                    handlers, pan/zoom                   *)
(*   src/components/ControlPanel.tsx  the buttons that edit the config     *)
(*   src/utils/imageUtils.ts:123-317  components/CropOverlay.tsx           *)
(*   src/types.ts:27-152              utils/imageUtils.ts (two-pass        *)
(*                                    processImage)                        *)
(*                                                                         *)
(* JavaScript numbers are modelled as exact rationals <<n, d>> extended    *)
(* with the IEEE specials +Infinity, -Infinity and NaN, so that division   *)
(* by a zero scale, aspect ratios such as 16/9 and the 0.05 / 0.9 factors  *)
(* are computed as the code computes them.  Rounding of binary floating    *)
(* point and the sign of zero are not modelled.                            *)
(*                                                                         *)
(* React is modelled at the granularity of one event: a handler, the       *)
(* state updates it batches, and the effects whose dependencies changed    *)
(* run as one atomic step.  Timers, image loads and processImage promises  *)
(* complete in separate steps, in any order.                               *)
(***************************************************************************)
EXTENDS Integers, Sequences, FiniteSets, TLC

(***************************************************************************)
(* Numbers                                                                 *)
(***************************************************************************)
Null == <<>>                \* a null `number | null`
NullObj == [null |-> TRUE]  \* a null object
NoImage == "none"           \* a null data URL
NoTimer == 0                \* a null timer id

NaN == <<0, 0>>
PosInf == <<1, 0>>
NegInf == <<-1, 0>>

\* The numbers are kept in lowest terms and common factors are cancelled
\* before multiplying.
Abs(n) == IF n < 0 THEN -n ELSE n

RECURSIVE GCD(_, _)
GCD(a, b) == IF b = 0 THEN a ELSE GCD(b, a % b)

\* n/d in lowest terms with a positive denominator (d # 0)
Frac(n, d) ==
  LET s == IF d < 0 THEN -1 ELSE 1
      g == GCD(Abs(n), Abs(d))
  IN  <<(s * n) \div g, (s * d) \div g>>

R(n) == <<n, 1>>
Zero == <<0, 1>>

IsNaN(a) == a = NaN
IsFinite(a) == a[2] # 0
Sign(a) == IF a[1] > 0 THEN 1 ELSE IF a[1] < 0 THEN -1 ELSE 0

Neg(a) == <<-a[1], a[2]>>

Add(a, b) ==
  IF IsNaN(a) \/ IsNaN(b) THEN NaN
  ELSE IF ~IsFinite(a) THEN (IF ~IsFinite(b) /\ b # a THEN NaN ELSE a)
  ELSE IF ~IsFinite(b) THEN b
  ELSE LET g == GCD(a[2], b[2])
       IN  Frac(a[1] * (b[2] \div g) + b[1] * (a[2] \div g), (a[2] \div g) * b[2])

Sub(a, b) == Add(a, Neg(b))

Mul(a, b) ==
  IF IsNaN(a) \/ IsNaN(b) THEN NaN
  ELSE IF ~IsFinite(a) \/ ~IsFinite(b)
       THEN (IF Sign(a) * Sign(b) = 0 THEN NaN ELSE <<Sign(a) * Sign(b), 0>>)
  ELSE LET g == GCD(Abs(a[1]), b[2])
           h == GCD(Abs(b[1]), a[2])
       IN  <<(a[1] \div g) * (b[1] \div h), (a[2] \div h) * (b[2] \div g)>>

Div(a, b) ==
  IF IsNaN(a) \/ IsNaN(b) THEN NaN
  ELSE IF ~IsFinite(a)
       THEN (IF ~IsFinite(b) THEN NaN
             ELSE <<Sign(a) * (IF Sign(b) < 0 THEN -1 ELSE 1), 0>>)
  ELSE IF ~IsFinite(b) THEN Zero
  ELSE IF b[1] = 0 THEN (IF a[1] = 0 THEN NaN ELSE <<Sign(a), 0>>)
  ELSE Mul(a, Frac(b[2], b[1]))

\* a < b as JavaScript evaluates it: false when either side is NaN
Lt(a, b) ==
  /\ ~IsNaN(a)
  /\ ~IsNaN(b)
  /\ a # b
  /\ \/ a = NegInf
     \/ b = PosInf
     \/ /\ IsFinite(a)
        /\ IsFinite(b)
        /\ LET g == GCD(a[2], b[2])
           IN  a[1] * (b[2] \div g) < b[1] * (a[2] \div g)

Gt(a, b) == Lt(b, a)
Le(a, b) == ~IsNaN(a) /\ ~IsNaN(b) /\ (a = b \/ Lt(a, b))
Ge(a, b) == Le(b, a)

MathMin(a, b) == IF IsNaN(a) \/ IsNaN(b) THEN NaN ELSE IF Lt(b, a) THEN b ELSE a
MathMax(a, b) == IF IsNaN(a) \/ IsNaN(b) THEN NaN ELSE IF Lt(a, b) THEN b ELSE a

\* truthiness of a `number | null`
Truthy(a) == a # Null /\ ~IsNaN(a) /\ a[1] # 0


(***************************************************************************)
(* The environment: the files the user can pick, the stage's size          *)
(***************************************************************************)
\* A picked file, read as a data URL: its id stands for the URL string,
\* width/height are the natural size it decodes to, ok says whether the
\* browser can decode it at all.
Files ==
  { [id |-> "a", width |-> 40, height |-> 30, ok |-> TRUE],
    [id |-> "b", width |-> 12, height |-> 20, ok |-> TRUE],
    [id |-> "corrupt", width |-> 0, height |-> 0, ok |-> FALSE] }

\* a photograph far larger than the stage
LargeFiles == { [id |-> "photo", width |-> 2400, height |-> 1800, ok |-> TRUE] }

\* an 800x600 picture, large enough for a 400x300 crop at (100, 50)
SceneFiles == { [id |-> "scene", width |-> 800, height |-> 600, ok |-> TRUE] }

FileOf(src) == CHOOSE f \in Files \cup LargeFiles \cup SceneFiles : f.id = src

\* clientWidth x clientHeight of the preview stage (containerRef.current)
Containers ==
  { [width |-> 120, height |-> 100],
    [width |-> 1040, height |-> 840],
    [width |-> 40, height |-> 30] }

(***************************************************************************)
(* State                                                                   *)
(***************************************************************************)
VARIABLES
  \* App.tsx useState / useRef
  originalImage,      \* NoImage or the id of the loaded file's data URL
  processedImage,     \* NullObj or the final raster
  intermediateImage,  \* NullObj or the rotated/flipped, uncropped raster
  processedSize,      \* 0 or the byte size of an encoded raster
  config,             \* ImageConfig
  configRef,          \* "INITIAL_CONFIG" while config is that very object
  origDimensions,
  isCropping,
  aiStatus,
  aiResult,
  isProcessing,
  timeoutRef,         \* NoTimer or the id of the last timer set
  viewTransform,
  isDragging,         \* pan gesture
  dragStartRef,
  viewStartRef,
  isFirstLoadRef,
  \* the browser
  container,          \* the stage's client size
  canvasOk,           \* getContext('2d') hands out contexts in this browser
  timers,             \* pending setTimeout callbacks
  imgLoads,           \* `new Image()` elements whose onload has not run yet
  inflight,           \* processImage and analyzeImageWithGemini promises not
                      \* yet settled
  \* CropOverlay useState / useRef
  cropIsDragging,
  cropDragType,
  cropDragStartRef,
  \* observation
  emitted,            \* the last rectangle CropOverlay passed to onChange
  firedSinceChange,   \* renders the debounce timer started since the last
                      \* run of the debounce effect
  userEvents,         \* number of user events so far (bounds the run)
  observed,           \* the last pan/zoom operation and the transform before it
  \* application of a pure function
  call,
  ret

appVars ==
  <<originalImage, processedImage, intermediateImage, processedSize, config,
    configRef, origDimensions, isCropping, aiStatus, aiResult, isProcessing,
    timeoutRef, isFirstLoadRef>>
viewVars == <<viewTransform, isDragging, dragStartRef, viewStartRef>>
stageVars == <<container, canvasOk>>
envVars == <<stageVars, timers, imgLoads, inflight>>
cropVars == <<cropIsDragging, cropDragType, cropDragStartRef>>
obsVars == <<emitted, firedSinceChange, userEvents, observed>>
fnVars == <<call, ret>>
vars == <<appVars, viewVars, envVars, cropVars, obsVars, fnVars>>

(***************************************************************************)
(* src/App.tsx:11-21                                                       *)
(***************************************************************************)
INITIAL_CONFIG ==
  [ rotation |-> 0,
    cropRatio |-> Null,
    cropRect |-> NullObj,
    quality |-> Frac(9, 10),
    targetWidth |-> Zero,
    targetHeight |-> Zero,
    flipHorizontal |-> FALSE,
    flipVertical |-> FALSE,
    format |-> "image/jpeg" ]

(***************************************************************************)
(* utils/imageUtils.ts, src/types.ts:48-144                                *)
(***************************************************************************)
\* the slip of never swapping
NeverSwapped(width, height, rotation) ==
  [width |-> width, height |-> height]

getTransformedDimensions(width, height, rotation) ==
  LET isVertical == rotation = 90 \/ rotation = 270
  IN  [ width |-> IF isVertical THEN height ELSE width,
        height |-> IF isVertical THEN width ELSE height ]

\* Assigning v to canvas.width / canvas.height: the attribute is an
\* `unsigned long` limited to non-negative numbers, so the number is
\* truncated, a non-finite one becomes 0 and a negative one the default.
Trunc(a) == IF a[1] >= 0 THEN a[1] \div a[2] ELSE -((-a[1]) \div a[2])
CanvasSize(v, default) ==
  IF ~IsFinite(v) THEN 0
  ELSE IF Trunc(v) < 0 THEN default
  ELSE Trunc(v)

\* the slip of drawing the whole intermediate raster whatever the crop
SourceRect_Full(intermediateWidth, intermediateHeight, cfg) ==
  [sx |-> Zero, sy |-> Zero, sWidth |-> intermediateWidth, sHeight |-> intermediateHeight]
\* the source rectangle of the second pass, in the intermediate raster's
\* frame (types.ts:104-122)
SourceRect(intermediateWidth, intermediateHeight, cfg) ==
  LET currentRatio == Div(intermediateWidth, intermediateHeight)
      byRect == cfg.cropRect # NullObj
      byRatio == ~byRect /\ Truthy(cfg.cropRatio)
      wider == byRatio /\ Gt(currentRatio, cfg.cropRatio)
      sWidth == IF byRect THEN cfg.cropRect.width
                ELSE IF wider THEN Mul(intermediateHeight, cfg.cropRatio)
                ELSE intermediateWidth
      sHeight == IF byRect THEN cfg.cropRect.height
                 ELSE IF byRatio /\ ~wider THEN Div(intermediateWidth, cfg.cropRatio)
                 ELSE intermediateHeight
      sx == IF byRect THEN cfg.cropRect.x
            ELSE IF wider THEN Div(Sub(intermediateWidth, sWidth), R(2))
            ELSE Zero
      sy == IF byRect THEN cfg.cropRect.y
            ELSE IF byRatio /\ ~wider THEN Div(Sub(intermediateHeight, sHeight), R(2))
            ELSE Zero
  IN  [sx |-> sx, sy |-> sy, sWidth |-> sWidth, sHeight |-> sHeight]

\* the slip of ignoring the target size
FinalExtent_SourceAlways(target, extent) == extent
\* the slip of testing the target with >= 0
FinalExtent_ZeroKept(target, extent) == IF Ge(target, Zero) THEN target ELSE extent
\* finalWidth / finalHeight: the target when it is positive, else the
\* source rectangle's extent (types.ts:127-128)
FinalExtent(target, extent) == IF Gt(target, Zero) THEN target ELSE extent

\* What processImage(imageSrc, config) resolves to when the canvas contexts
\* are available: the decode error of loadImage, or the encoded final
\* canvas, identified by everything that was drawn into it.
processImage(imageSrc, cfg) ==
  LET img == FileOf(imageSrc)
      originalWidth == R(img.width)
      originalHeight == R(img.height)
      inter == getTransformedDimensions(originalWidth, originalHeight, cfg.rotation)
      intermediateWidth == inter.width
      intermediateHeight == inter.height
      s == SourceRect(intermediateWidth, intermediateHeight, cfg)
      finalWidth == FinalExtent(cfg.targetWidth, s.sWidth)
      finalHeight == FinalExtent(cfg.targetHeight, s.sHeight)
  IN  IF ~img.ok THEN [error |-> "decode"]
      ELSE [ src |-> imageSrc,
             rotation |-> cfg.rotation,
             flipHorizontal |-> cfg.flipHorizontal,
             flipVertical |-> cfg.flipVertical,
             intermediateWidth |-> CanvasSize(intermediateWidth, 300),
             intermediateHeight |-> CanvasSize(intermediateHeight, 150),
             sx |-> s.sx, sy |-> s.sy, sWidth |-> s.sWidth, sHeight |-> s.sHeight,
             width |-> CanvasSize(finalWidth, 300),
             height |-> CanvasSize(finalHeight, 150),
             format |-> cfg.format,
             quality |-> cfg.quality ]

IsError(result) == "error" \in DOMAIN result


(***************************************************************************)
(* components/CropOverlay.tsx, src/utils/imageUtils.ts:123-317             *)
(***************************************************************************)
MinExtent == 10

DragTypes == {"move", "nw", "ne", "sw", "se"}
Corners == {"nw", "ne", "sw", "se"}

\* dragType.includes(c) for a one-letter c
Includes(dragType, c) ==
  CASE dragType = "move" -> c \in {"m", "o", "v", "e"}
    [] dragType = "nw" -> c \in {"n", "w"}
    [] dragType = "ne" -> c \in {"n", "e"}
    [] dragType = "sw" -> c \in {"s", "w"}
    [] dragType = "se" -> c \in {"s", "e"}

\* the slip of taking the screen delta as it is
toImageDelta_Unscaled(val, scale) == val
toImageDelta(val, scale) == Div(val, scale)

\* The edges of a corner resize after the raw deltas, the minimum extent
\* and the bounds check (lines 200-215)
ResizeEdges(startRect, dragType, deltaX, deltaY, imageDimensions) ==
  LET right0 == Add(startRect.x, startRect.width)
      bottom0 == Add(startRect.y, startRect.height)
      left1 == IF Includes(dragType, "w")
               THEN MathMin(Add(startRect.x, deltaX), Sub(right0, R(MinExtent)))
               ELSE startRect.x
      right1 == IF Includes(dragType, "e")
                THEN MathMax(Add(right0, deltaX), Add(left1, R(MinExtent)))
                ELSE right0
      top1 == IF Includes(dragType, "n")
              THEN MathMin(Add(startRect.y, deltaY), Sub(bottom0, R(MinExtent)))
              ELSE startRect.y
      bottom1 == IF Includes(dragType, "s")
                 THEN MathMax(Add(bottom0, deltaY), Add(top1, R(MinExtent)))
                 ELSE bottom0
  IN  [ left |-> IF Lt(left1, Zero) THEN Zero ELSE left1,
        top |-> IF Lt(top1, Zero) THEN Zero ELSE top1,
        right |-> IF Gt(right1, imageDimensions.width)
                  THEN imageDimensions.width ELSE right1,
        bottom |-> IF Gt(bottom1, imageDimensions.height)
                   THEN imageDimensions.height ELSE bottom1 ]

\* the slip of growing every locked rectangle from its top-left corner
EnforceAspect_FromTopLeft(e, dragType, imageDimensions, aspectRatio) ==
  LET w0 == Sub(e.right, e.left)
      h1 == Div(w0, aspectRatio)
      south == Gt(Add(e.top, h1), imageDimensions.height)
      h == IF south THEN Sub(imageDimensions.height, e.top) ELSE h1
      w == IF south THEN Mul(h, aspectRatio) ELSE w0
  IN  IF dragType \in Corners
      THEN [e EXCEPT !.bottom = Add(e.top, h), !.right = Add(e.left, w)]
      ELSE e
\* The aspect ratio branch (lines 217-243)
EnforceAspect(e, dragType, imageDimensions, aspectRatio) ==
  LET w0 == Sub(e.right, e.left)
      h0 == Sub(e.bottom, e.top)
      corner == dragType \in Corners
      h1 == IF corner THEN Div(w0, aspectRatio) ELSE h0
      south == corner /\ Includes(dragType, "s")
                 /\ Gt(Add(e.top, h1), imageDimensions.height)
      north == corner /\ ~south /\ Includes(dragType, "n")
                 /\ Lt(Sub(e.bottom, h1), Zero)
      h == IF south THEN Sub(imageDimensions.height, e.top)
           ELSE IF north THEN e.bottom
           ELSE h1
      w == IF south \/ north THEN Mul(h, aspectRatio) ELSE w0
  IN  CASE dragType = "se" -> [e EXCEPT !.bottom = Add(e.top, h), !.right = Add(e.left, w)]
        [] dragType = "ne" -> [e EXCEPT !.top = Sub(e.bottom, h), !.right = Add(e.left, w)]
        [] dragType = "sw" -> [e EXCEPT !.bottom = Add(e.top, h), !.left = Sub(e.right, w)]
        [] dragType = "nw" -> [e EXCEPT !.top = Sub(e.bottom, h), !.left = Sub(e.right, w)]
        [] OTHER -> e

\* newX, newY, newW, newH of the edges (lines 245-249)
RectOfEdges(e) ==
  [ x |-> e.left,
    y |-> e.top,
    width |-> Sub(e.right, e.left),
    height |-> Sub(e.bottom, e.top) ]

\* the slip of translating without the limits
MoveRect_Unclamped(startRect, deltaX, deltaY, imageDimensions) ==
  [ startRect EXCEPT !.x = Add(startRect.x, deltaX), !.y = Add(startRect.y, deltaY) ]
\* the move branch (lines 195-197)
MoveRect(startRect, deltaX, deltaY, imageDimensions) ==
  [ startRect EXCEPT
      !.x = MathMax(Zero, MathMin(Add(startRect.x, deltaX),
                                  Sub(imageDimensions.width, startRect.width))),
      !.y = MathMax(Zero, MathMin(Add(startRect.y, deltaY),
                                  Sub(imageDimensions.height, startRect.height))) ]

\* the rectangle handleWindowMove passes to onChange (lines 185-252)
handleWindowMove(startRect, dragType, deltaX, deltaY, imageDimensions, aspectRatio) ==
  IF dragType = "move"
  THEN MoveRect(startRect, deltaX, deltaY, imageDimensions)
  ELSE LET e0 == ResizeEdges(startRect, dragType, deltaX, deltaY, imageDimensions)
       IN  RectOfEdges(IF Truthy(aspectRatio)
                       THEN EnforceAspect(e0, dragType, imageDimensions, aspectRatio)
                       ELSE e0)


(***************************************************************************)
(* Bounds of the model                                                     *)
(***************************************************************************)
MaxUserEvents == 4   \* user events in one run of the editor
MaxInflight == 2     \* image loads and processImage calls pending at once

(***************************************************************************)
(* src/App.tsx: effects                                                    *)
(***************************************************************************)
\* the slip of clearing the ratio and the targets but not the rectangle
IntermediateConfig_RectKept(cfg) ==
  [cfg EXCEPT !.cropRatio = Null, !.targetWidth = Zero, !.targetHeight = Zero]
\* the config updateIntermediateImage hands to processImage (lines 76-82)
IntermediateConfig(cfg) ==
  [cfg EXCEPT !.cropRect = NullObj, !.cropRatio = Null,
              !.targetWidth = Zero, !.targetHeight = Zero]

IntermediateJob(src, cfg) ==
  [kind |-> "intermediate", by |-> "effect", src |-> src, cfg |-> IntermediateConfig(cfg)]
FinalJob(src, cfg, by) ==
  [kind |-> "final", by |-> by, src |-> src, cfg |-> cfg]

\* setTimeout returns an id no pending timer has; the one timeoutRef still
\* holds is avoided too, as the browser never hands out an id twice.
TimerIds == {t.id : t \in timers}
FreshTimerId ==
  CHOOSE i \in 1..(Cardinality(timers) + 2) :
    /\ i \notin TimerIds
    /\ i # timeoutRef
    /\ \A k \in 1..(i - 1) : k \in TimerIds \/ k = timeoutRef

\* the slip of leaving the superseded timer running
ClearTimeout_Forgotten(pending) == pending
\* clearTimeout(timeoutRef.current), guarded by `if (timeoutRef.current)`
ClearTimeout(pending) ==
  IF timeoutRef # NoTimer THEN {t \in pending : t.id # timeoutRef} ELSE pending

\* The overlay is rendered only in crop mode, over an intermediate raster,
\* for a non-null cropRect (lines 576-592); its state is lost when it is not.
OverlayMounted(cropping, inter, cfg) ==
  cropping /\ inter # NullObj /\ cfg.cropRect # NullObj

NoDragStart == [null |-> TRUE]
NoDragType == "none"

\* the slip of scheduling the render in crop mode too
DebounceSchedules_Always(src, cropping) == src # NoImage
\* The debounce effect schedules a render unless crop mode is on (line 109)
DebounceSchedules(src, cropping) == src # NoImage /\ ~cropping

\* One commit of React state set by a handler, followed by the effects whose
\* dependencies changed:
\*   lines 57-70   [originalImage]                      load the metadata
\*   lines 90-96   [rotation, flips, originalImage]     intermediate raster
\*   lines 99-120  [config, isCropping]                 debounced render
\* setKind says how the handler set the config: "none", "new" (a fresh
\* object) or "INITIAL_CONFIG" (that constant, which is no change when the
\* config already is that object).
Commit(src, cfg, setKind, cropping) ==
  LET configChanged ==
        \/ setKind = "new"
        \/ setKind = "INITIAL_CONFIG" /\ configRef # "INITIAL_CONFIG"
      srcChanged == src # originalImage
      transformChanged ==
        \/ cfg.rotation # config.rotation
        \/ cfg.flipHorizontal # config.flipHorizontal
        \/ cfg.flipVertical # config.flipVertical
        \/ srcChanged
      debounceRuns == (configChanged \/ cropping # isCropping) /\ src # NoImage
      cleared == IF debounceRuns THEN ClearTimeout(timers) ELSE timers
      schedule == debounceRuns /\ DebounceSchedules(src, cropping)
      id == FreshTimerId
  IN  /\ originalImage' = src
      /\ config' = cfg
      /\ configRef' = CASE setKind = "new" -> "object"
                        [] setKind = "INITIAL_CONFIG" -> "INITIAL_CONFIG"
                        [] OTHER -> configRef
      /\ isCropping' = cropping
      /\ timers' = IF schedule
                   THEN cleared \cup {[id |-> id, src |-> src, cfg |-> cfg]}
                   ELSE cleared
      /\ timeoutRef' = IF schedule THEN id ELSE timeoutRef
      /\ isProcessing' = IF schedule THEN TRUE ELSE isProcessing
      /\ inflight' = IF transformChanged /\ src # NoImage
                     THEN inflight \cup {IntermediateJob(src, cfg)}
                     ELSE inflight
      /\ imgLoads' = IF srcChanged /\ src # NoImage
                     THEN imgLoads \cup {[kind |-> "meta", src |-> src, cfg |-> cfg]}
                     ELSE imgLoads
      /\ firedSinceChange' = IF debounceRuns THEN <<>> ELSE firedSinceChange
      /\ Cardinality(inflight') + Cardinality(imgLoads') <= MaxInflight

\* what a commit leaves of the overlay's state
OverlayKept(cropping, cfg) ==
  IF OverlayMounted(cropping, intermediateImage, cfg)
  THEN UNCHANGED cropVars
  ELSE /\ cropIsDragging' = FALSE
       /\ cropDragType' = NoDragType
       /\ cropDragStartRef' = NoDragStart


(***************************************************************************)
(* src/App.tsx, src/components/ControlPanel.tsx: the user's handlers       *)
(***************************************************************************)
NoSize == [of |-> NullObj]
EncodedSize(raster) == [of |-> raster]

\* the slip of leaving the analysis of the previous file in place
LoadFile_KeepsAnalysis(f) ==
  /\ Commit(f.id, INITIAL_CONFIG, "INITIAL_CONFIG", FALSE)
  /\ OverlayKept(FALSE, INITIAL_CONFIG)
  /\ isFirstLoadRef' = TRUE
  /\ UNCHANGED <<processedImage, intermediateImage, processedSize, origDimensions,
                 aiResult, aiStatus, viewVars, stageVars, emitted, fnVars>>

\* handleFileUpload / handleDrop of an image file (lines 172-198)
LoadFile(f) ==
  /\ Commit(f.id, INITIAL_CONFIG, "INITIAL_CONFIG", FALSE)
  /\ OverlayKept(FALSE, INITIAL_CONFIG)
  /\ aiResult' = NullObj
  /\ aiStatus' = "IDLE"
  /\ isFirstLoadRef' = TRUE
  /\ UNCHANGED <<processedImage, intermediateImage, processedSize, origDimensions,
                 viewVars, stageVars, emitted, fnVars>>

\* the panel is rendered once an image is loaded (App.tsx:483-513)
PanelShown == originalImage # NoImage

\* updateConfig(key, value) (ControlPanel.tsx:26-28)
UpdateConfig(cfg) ==
  /\ PanelShown
  /\ Commit(originalImage, cfg, "new", isCropping)
  /\ OverlayKept(isCropping, cfg)
  /\ UNCHANGED <<processedImage, intermediateImage, processedSize, origDimensions,
                 aiStatus, aiResult, isFirstLoadRef, viewVars, stageVars,
                 emitted, fnVars>>

\* the slips of leaving out the wrap at 0 and at 360
RotateLeft_NoWrap ==
  /\ ~isCropping
  /\ UpdateConfig([config EXCEPT !.rotation = config.rotation - 90])
RotateRight_NoWrap ==
  /\ ~isCropping
  /\ UpdateConfig([config EXCEPT !.rotation = config.rotation + 90])
\* rotate and flip buttons, disabled in crop mode (ControlPanel.tsx:54-83)
RotateLeft ==
  /\ ~isCropping
  /\ UpdateConfig([config EXCEPT !.rotation = (config.rotation - 90 + 360) % 360])
RotateRight ==
  /\ ~isCropping
  /\ UpdateConfig([config EXCEPT !.rotation = (config.rotation + 90) % 360])
FlipHorizontal ==
  /\ ~isCropping
  /\ UpdateConfig([config EXCEPT !.flipHorizontal = ~config.flipHorizontal])
FlipVertical ==
  /\ ~isCropping
  /\ UpdateConfig([config EXCEPT !.flipVertical = ~config.flipVertical])

\* width / height inputs, format buttons, quality slider
\* (ControlPanel.tsx:165-223)
TargetSizes == {0, 20}
Formats == {"image/jpeg", "image/png", "image/webp"}
Qualities == {Frac(9, 10), Frac(1, 2)}
SetTargetWidth(v) == UpdateConfig([config EXCEPT !.targetWidth = R(v)])
SetTargetHeight(v) == UpdateConfig([config EXCEPT !.targetHeight = R(v)])
SetFormat(fmt) == UpdateConfig([config EXCEPT !.format = fmt])
SetQuality(q) == UpdateConfig([config EXCEPT !.quality = q])

\* the slip of seeding the ratio rectangle at the top left corner
SeedRect_Uncentred(width, height, targetRatio) ==
  IF Truthy(targetRatio)
  THEN LET wider == Gt(Div(width, height), targetRatio)
       IN  [ x |-> Zero,
             y |-> Zero,
             width |-> IF wider THEN Mul(height, targetRatio) ELSE width,
             height |-> IF wider THEN height ELSE Div(width, targetRatio) ]
  ELSE [ x |-> Mul(width, Frac(5, 100)),
         y |-> Mul(height, Frac(5, 100)),
         width |-> Mul(width, Frac(9, 10)),
         height |-> Mul(height, Frac(9, 10)) ]
\* the rectangle handleToggleCrop seeds (App.tsx:238-271)
SeedRect(width, height, targetRatio) ==
  IF Truthy(targetRatio)
  THEN LET wider == Gt(Div(width, height), targetRatio)
           w == IF wider THEN Mul(height, targetRatio) ELSE width
           h == IF wider THEN height ELSE Div(width, targetRatio)
       IN  [ x |-> Div(Sub(width, w), R(2)),
             y |-> Div(Sub(height, h), R(2)),
             width |-> w,
             height |-> h ]
  ELSE [ x |-> Mul(width, Frac(5, 100)),
         y |-> Mul(height, Frac(5, 100)),
         width |-> Mul(width, Frac(9, 10)),
         height |-> Mul(height, Frac(9, 10)) ]

Undefined == <<"undefined">>

\* the config handleToggleCrop(true, ratio) sets (App.tsx:229-276)
CropConfig(ratio) ==
  LET targetRatio == IF ratio # Undefined THEN ratio ELSE config.cropRatio
      dims == getTransformedDimensions(origDimensions.width, origDimensions.height,
                                       config.rotation)
      kept == IF Truthy(targetRatio) THEN targetRatio ELSE Null
  IN  IF config.cropRect = NullObj \/ ratio # Undefined
      THEN [config EXCEPT !.cropRatio = kept,
                          !.cropRect = SeedRect(dims.width, dims.height, targetRatio)]
      ELSE [config EXCEPT !.cropRatio = kept]

\* the ratio buttons: onToggleCrop(true, r) (ControlPanel.tsx:30-36, 130-136)
AspectRatios == {Null, R(1), Frac(16, 9), Frac(9, 16), Frac(4, 3)}
EnterCrop(ratio) ==
  /\ PanelShown
  /\ Commit(originalImage, CropConfig(ratio), "new", TRUE)
  /\ OverlayKept(TRUE, CropConfig(ratio))
  /\ UNCHANGED <<processedImage, intermediateImage, processedSize, origDimensions,
                 aiStatus, aiResult, isFirstLoadRef, viewVars, stageVars,
                 emitted, fnVars>>

\* the slip of dropping the rectangle when crop mode is left
ExitCrop_Reverts ==
  LET cfg == [config EXCEPT !.cropRect = NullObj]
  IN  /\ PanelShown
      /\ isCropping
      /\ Commit(originalImage, cfg, "new", FALSE)
      /\ OverlayKept(FALSE, cfg)
      /\ UNCHANGED <<processedImage, intermediateImage, processedSize, origDimensions,
                     aiStatus, aiResult, isFirstLoadRef, viewVars, stageVars,
                     emitted, fnVars>>
\* Apply / Done: onToggleCrop(false) (ControlPanel.tsx:91-110, App.tsx:278-281)
ExitCrop ==
  /\ PanelShown
  /\ isCropping
  /\ Commit(originalImage, config, "none", FALSE)
  /\ OverlayKept(FALSE, config)
  /\ UNCHANGED <<processedImage, intermediateImage, processedSize, origDimensions,
                 aiStatus, aiResult, isFirstLoadRef, viewVars, stageVars,
                 emitted, fnVars>>

\* the 'Original' button (ControlPanel.tsx:116-128)
CropOriginal ==
  LET cfg == [config EXCEPT !.cropRatio = Null, !.cropRect = NullObj]
  IN  /\ PanelShown
      /\ Commit(originalImage, cfg, "new", FALSE)
      /\ OverlayKept(FALSE, cfg)
      /\ UNCHANGED <<processedImage, intermediateImage, processedSize, origDimensions,
                     aiStatus, aiResult, isFirstLoadRef, viewVars, stageVars,
                     emitted, fnVars>>


(***************************************************************************)
(* src/App.tsx: pan and zoom                                               *)
(***************************************************************************)
Padding == 40
MinAvailable == 100
MinScale == Frac(5, 100)
MaxScale == R(10)
ZoomStep == Frac(2, 10)
ScaleSensitivity == Neg(Frac(1, 1000))

\* the stage exists once an image is loaded (App.tsx:483-541)
ContainerExists == originalImage # NoImage

\* the transform resetView sets (App.tsx:286-300)
ResetTransform(dims, cw, ch) ==
  LET scale == MathMin(Div(Sub(cw, R(Padding)), dims.width),
                       Div(Sub(ch, R(Padding)), dims.height))
  IN  [ scale |-> scale,
        x |-> Div(Sub(cw, Mul(dims.width, scale)), R(2)),
        y |-> Div(Sub(ch, Mul(dims.height, scale)), R(2)) ]

resetView(current) ==
  IF intermediateImage # NullObj /\ ContainerExists
  THEN ResetTransform(
         getTransformedDimensions(origDimensions.width, origDimensions.height,
                                  config.rotation),
         R(container.width), R(container.height))
  ELSE current

\* the transform the auto-fit sets (App.tsx:134-148)
FitTransform(naturalWidth, naturalHeight, clientWidth, clientHeight) ==
  LET availableWidth == MathMax(R(MinAvailable), Sub(clientWidth, R(Padding)))
      availableHeight == MathMax(R(MinAvailable), Sub(clientHeight, R(Padding)))
      scaleX == Div(availableWidth, naturalWidth)
      scaleY == Div(availableHeight, naturalHeight)
      scale == MathMin(MathMin(scaleX, scaleY), R(1))
  IN  [ scale |-> scale,
        x |-> Div(Sub(clientWidth, Mul(naturalWidth, scale)), R(2)),
        y |-> Div(Sub(clientHeight, Mul(naturalHeight, scale)), R(2)) ]

\* the slip of rescaling without moving the origin
ZoomAbout_OriginKept(vt, px, py, newScale) == [vt EXCEPT !.scale = newScale]
\* the transform after a zoom to newScale that keeps (px, py) in place
\* (App.tsx:316-326, 398-404, 416-422)
ZoomAbout(vt, px, py, newScale) ==
  LET contentX == Div(Sub(px, vt.x), vt.scale)
      contentY == Div(Sub(py, vt.y), vt.scale)
  IN  [ scale |-> newScale,
        x |-> Sub(px, Mul(contentX, newScale)),
        y |-> Sub(py, Mul(contentY, newScale)) ]

WheelScale(currentScale, deltaY) ==
  MathMin(MathMax(MinScale, Add(currentScale, Mul(deltaY, ScaleSensitivity))), MaxScale)
ZoomInScale(currentScale) == MathMin(Add(currentScale, ZoomStep), MaxScale)
ZoomOutScale(currentScale) == MathMax(Sub(currentScale, ZoomStep), MinScale)

\* handleWheel (App.tsx:302-327); mouseX, mouseY are relative to the stage
handleWheel(deltaY, mouseX, mouseY) ==
  /\ ContainerExists
  /\ viewTransform' = ZoomAbout(viewTransform, R(mouseX), R(mouseY),
                                WheelScale(viewTransform.scale, R(deltaY)))
  /\ UNCHANGED <<appVars, isDragging, dragStartRef, viewStartRef, envVars, cropVars,
                 emitted, firedSinceChange, fnVars>>

\* zoomIn / zoomOut (App.tsx:389-423)
zoomIn ==
  /\ ContainerExists
  /\ viewTransform' = ZoomAbout(viewTransform,
                                Div(R(container.width), R(2)),
                                Div(R(container.height), R(2)),
                                ZoomInScale(viewTransform.scale))
  /\ UNCHANGED <<appVars, isDragging, dragStartRef, viewStartRef, envVars, cropVars,
                 emitted, firedSinceChange, fnVars>>
zoomOut ==
  /\ ContainerExists
  /\ viewTransform' = ZoomAbout(viewTransform,
                                Div(R(container.width), R(2)),
                                Div(R(container.height), R(2)),
                                ZoomOutScale(viewTransform.scale))
  /\ UNCHANGED <<appVars, isDragging, dragStartRef, viewStartRef, envVars, cropVars,
                 emitted, firedSinceChange, fnVars>>

\* the floating Reset button (App.tsx:626)
ResetViewButton ==
  /\ ContainerExists
  /\ viewTransform' = resetView(viewTransform)
  /\ UNCHANGED <<appVars, isDragging, dragStartRef, viewStartRef, envVars, cropVars,
                 emitted, firedSinceChange, fnVars>>

\* the panel's Reset (App.tsx:505-509); resetView reads the config and the
\* dimensions of the render the button was clicked in
PanelReset ==
  /\ PanelShown
  /\ Commit(originalImage, INITIAL_CONFIG, "INITIAL_CONFIG", FALSE)
  /\ OverlayKept(FALSE, INITIAL_CONFIG)
  /\ viewTransform' = resetView(viewTransform)
  /\ UNCHANGED <<processedImage, intermediateImage, processedSize, origDimensions,
                 aiStatus, aiResult, isFirstLoadRef, isDragging, dragStartRef,
                 viewStartRef, stageVars, emitted, fnVars>>


(***************************************************************************)
(* Pointer events: the stage's pan handlers (App.tsx:329-357) and the      *)
(* overlay's drag handlers (CropOverlay, imageUtils.ts:172-267)            *)
(***************************************************************************)
OverlayShown == OverlayMounted(isCropping, intermediateImage, config)

\* mouse-down on the overlay's body or on a handle; it stops propagation,
\* so the stage does not see it
CropMouseDown(type, clientX, clientY) ==
  /\ OverlayShown
  /\ cropIsDragging' = TRUE
  /\ cropDragType' = type
  /\ cropDragStartRef' = [x |-> clientX, y |-> clientY, rect |-> config.cropRect]
  /\ UNCHANGED <<appVars, viewVars, envVars, emitted, firedSinceChange, fnVars>>

\* the slip of starting a pan with nothing on the stage
StageMouseDown_NoRasterCheck(clientX, clientY) ==
  /\ ContainerExists
  /\ isDragging' = TRUE
  /\ dragStartRef' = [x |-> clientX, y |-> clientY]
  /\ viewStartRef' = [x |-> viewTransform.x, y |-> viewTransform.y]
  /\ UNCHANGED <<appVars, viewTransform, envVars, cropVars, emitted,
                 firedSinceChange, fnVars>>
\* mouse-down on the stage outside the overlay: handleMouseDown -> startDrag
StageMouseDown(clientX, clientY) ==
  /\ ContainerExists
  /\ IF processedImage = NullObj /\ intermediateImage = NullObj
     THEN UNCHANGED <<isDragging, dragStartRef, viewStartRef>>
     ELSE /\ isDragging' = TRUE
          /\ dragStartRef' = [x |-> clientX, y |-> clientY]
          /\ viewStartRef' = [x |-> viewTransform.x, y |-> viewTransform.y]
  /\ UNCHANGED <<appVars, viewTransform, envVars, cropVars, emitted,
                 firedSinceChange, fnVars>>

\* whether a corner resize was held back by the minimum extent, by the
\* image bounds or by the height limit of the aspect branch
ResizeClamped(startRect, dragType, deltaX, deltaY, imageDimensions, aspectRatio) ==
  LET right0 == Add(startRect.x, startRect.width)
      bottom0 == Add(startRect.y, startRect.height)
      raw == [ left |-> IF Includes(dragType, "w") THEN Add(startRect.x, deltaX)
                        ELSE startRect.x,
               right |-> IF Includes(dragType, "e") THEN Add(right0, deltaX) ELSE right0,
               top |-> IF Includes(dragType, "n") THEN Add(startRect.y, deltaY)
                       ELSE startRect.y,
               bottom |-> IF Includes(dragType, "s") THEN Add(bottom0, deltaY)
                          ELSE bottom0 ]
      e == ResizeEdges(startRect, dragType, deltaX, deltaY, imageDimensions)
      h1 == Div(Sub(e.right, e.left), aspectRatio)
  IN  \/ e # raw
      \/ /\ Truthy(aspectRatio)
         /\ \/ Includes(dragType, "s") /\ Gt(Add(e.top, h1), imageDimensions.height)
            \/ Includes(dragType, "n") /\ Lt(Sub(e.bottom, h1), Zero)

\* the slip of resizing from the rectangle as the last move left it
startRect_Current(start) == config.cropRect
\* startRect, the rectangle the gesture is computed from (imageUtils.ts:191)
startRect(start) == start.rect

\* a mouse-move: the overlay's window listener (attached while it drags)
\* and the stage's handleMouseMove (acting while a pan is on)
MouseMove(clientX, clientY) ==
  LET start == cropDragStartRef
      dims == getTransformedDimensions(origDimensions.width, origDimensions.height,
                                       config.rotation)
      deltaX == toImageDelta(R(clientX - start.x), viewTransform.scale)
      deltaY == toImageDelta(R(clientY - start.y), viewTransform.scale)
  IN  /\ IF cropIsDragging /\ start # NoDragStart
         THEN \E newRect \in {handleWindowMove(startRect(start), cropDragType, deltaX, deltaY,
                                                dims, config.cropRatio)} :
                \E cfg \in {[config EXCEPT !.cropRect = newRect]} :
                  /\ Commit(originalImage, cfg, "new", isCropping)
                  /\ OverlayKept(isCropping, cfg)
                  /\ emitted' = [ rect |-> newRect,
                                  dragType |-> cropDragType,
                                  locked |-> Truthy(config.cropRatio),
                                  clamped |-> cropDragType # "move"
                                    /\ ResizeClamped(start.rect, cropDragType, deltaX,
                                                     deltaY, dims, config.cropRatio) ]
         ELSE UNCHANGED <<originalImage, config, configRef, isCropping, timers,
                          timeoutRef, isProcessing, inflight, imgLoads,
                          firedSinceChange, cropVars, emitted>>
      /\ IF isDragging
         THEN viewTransform' =
                [viewTransform EXCEPT
                   !.x = Add(viewStartRef.x, R(clientX - dragStartRef.x)),
                   !.y = Add(viewStartRef.y, R(clientY - dragStartRef.y))]
         ELSE UNCHANGED viewTransform
      /\ UNCHANGED <<processedImage, intermediateImage, processedSize, origDimensions,
                     aiStatus, aiResult, isFirstLoadRef, isDragging, dragStartRef,
                     viewStartRef, stageVars, fnVars>>

\* the slip of leaving dragType set at mouse-up
MouseUp_TypeKept ==
  /\ IF cropIsDragging
     THEN /\ cropIsDragging' = FALSE
          /\ UNCHANGED <<cropDragType, cropDragStartRef>>
     ELSE UNCHANGED cropVars
  /\ isDragging' = FALSE
  /\ UNCHANGED <<appVars, viewTransform, dragStartRef, viewStartRef, envVars,
                 emitted, firedSinceChange, fnVars>>
\* a mouse-up: the overlay's handleWindowUp and the stage's handleMouseUp
MouseUp ==
  /\ IF cropIsDragging
     THEN /\ cropIsDragging' = FALSE
          /\ cropDragType' = NoDragType
          /\ UNCHANGED cropDragStartRef
     ELSE UNCHANGED cropVars
  /\ isDragging' = FALSE
  /\ UNCHANGED <<appVars, viewTransform, dragStartRef, viewStartRef, envVars,
                 emitted, firedSinceChange, fnVars>>

\* a touch that begins on the stage or, the overlay listening to mouse events
\* only, on the overlay's body or on a handle: handleTouchStart with one
\* finger (App.tsx:360-366)
TouchStart(clientX, clientY) ==
  /\ ContainerExists
  /\ IF processedImage = NullObj /\ intermediateImage = NullObj
     THEN UNCHANGED <<isDragging, dragStartRef, viewStartRef>>
     ELSE /\ isDragging' = TRUE
          /\ dragStartRef' = [x |-> clientX, y |-> clientY]
          /\ viewStartRef' = [x |-> viewTransform.x, y |-> viewTransform.y]
  /\ UNCHANGED <<appVars, viewTransform, envVars, cropVars, emitted,
                 firedSinceChange, fnVars>>

\* handleTouchMove with one finger (App.tsx:368-381)
TouchMove(clientX, clientY) ==
  /\ ContainerExists
  /\ IF isDragging
     THEN viewTransform' =
            [viewTransform EXCEPT
               !.x = Add(viewStartRef.x, R(clientX - dragStartRef.x)),
               !.y = Add(viewStartRef.y, R(clientY - dragStartRef.y))]
     ELSE UNCHANGED viewTransform
  /\ UNCHANGED <<appVars, isDragging, dragStartRef, viewStartRef, envVars, cropVars,
                 emitted, firedSinceChange, fnVars>>

\* handleTouchEnd (App.tsx:383-385)
TouchEnd ==
  /\ ContainerExists
  /\ isDragging' = FALSE
  /\ UNCHANGED <<appVars, viewTransform, dragStartRef, viewStartRef, envVars, cropVars,
                 emitted, firedSinceChange, fnVars>>


(***************************************************************************)
(* src/App.tsx: timers, image loads and renders completing                 *)
(***************************************************************************)
\* the debounce timer fires: handleProcess(originalImage, config) of the
\* render that set it (lines 111-113, 155-157)
TimerFire(t) ==
  /\ t \in timers
  /\ Cardinality(inflight) + Cardinality(imgLoads) < MaxInflight
  /\ timers' = timers \ {t}
  /\ inflight' = inflight \cup {FinalJob(t.src, t.cfg, "timer")}
  /\ firedSinceChange' = Append(firedSinceChange, [src |-> t.src, cfg |-> t.cfg])
  /\ UNCHANGED <<appVars, viewVars, stageVars, imgLoads, cropVars, emitted, fnVars>>

\* img.onload of the initial load effect (lines 61-67)
MetaOnload(l) ==
  /\ l \in imgLoads
  /\ l.kind = "meta"
  /\ FileOf(l.src).ok
  /\ origDimensions' = [width |-> R(FileOf(l.src).width),
                        height |-> R(FileOf(l.src).height)]
  /\ imgLoads' = imgLoads \ {l}
  /\ inflight' = inflight \cup {IntermediateJob(l.src, l.cfg), FinalJob(l.src, l.cfg, "load")}
  /\ Cardinality(inflight') + Cardinality(imgLoads') <= MaxInflight + 1
  /\ UNCHANGED <<originalImage, processedImage, intermediateImage, processedSize,
                 config, configRef, isCropping, aiStatus, aiResult, isProcessing,
                 timeoutRef, isFirstLoadRef, viewVars, stageVars, timers, cropVars,
                 emitted, firedSinceChange, fnVars>>

\* an Image element that cannot decode its source: no handler is attached
\* to the error, the load is simply over
ImgError(l) ==
  /\ l \in imgLoads
  /\ \/ l.kind = "meta" /\ ~FileOf(l.src).ok
     \/ l.kind = "fit" /\ (l.img.width = 0 \/ l.img.height = 0)
  /\ imgLoads' = imgLoads \ {l}
  /\ UNCHANGED <<appVars, viewVars, stageVars, timers, inflight, cropVars, emitted,
                 firedSinceChange, fnVars>>

\* img.onload of the auto-fit effect (lines 126-150)
FitOnload(l) ==
  /\ l \in imgLoads
  /\ l.kind = "fit"
  /\ l.img.width # 0 /\ l.img.height # 0
  /\ imgLoads' = imgLoads \ {l}
  /\ IF ~ContainerExists \/ container.width = 0 \/ container.height = 0
     THEN UNCHANGED <<viewTransform, isFirstLoadRef>>
     ELSE /\ viewTransform' = FitTransform(R(l.img.width), R(l.img.height),
                                           R(container.width), R(container.height))
          /\ isFirstLoadRef' = FALSE
  /\ UNCHANGED <<originalImage, processedImage, intermediateImage, processedSize,
                 config, configRef, origDimensions, isCropping, aiStatus, aiResult,
                 isProcessing, timeoutRef, isDragging, dragStartRef, viewStartRef,
                 stageVars, timers, inflight, cropVars, emitted, firedSinceChange,
                 fnVars>>

\* a processImage promise resolves: handleProcess (lines 157-168) or
\* updateIntermediateImage (line 83) followed by the auto-fit effect
\* (lines 123-124, 151)
handleProcess_Resolved(j) ==
  /\ processedImage' = processImage(j.src, j.cfg)
  /\ processedSize' = EncodedSize(processImage(j.src, j.cfg))
  /\ isProcessing' = FALSE
  /\ UNCHANGED <<intermediateImage, imgLoads>>

updateIntermediateImage_Resolved(j) ==
  LET url == processImage(j.src, j.cfg)
  IN  /\ intermediateImage' = url
      /\ imgLoads' = IF url # intermediateImage /\ isFirstLoadRef /\ ContainerExists
                     THEN imgLoads \cup {[kind |-> "fit", img |-> url]}
                     ELSE imgLoads
      /\ UNCHANGED <<processedImage, processedSize, isProcessing>>

RenderResolve(j) ==
  /\ j \in inflight
  /\ j.kind # "analysis"
  /\ canvasOk
  /\ ~IsError(processImage(j.src, j.cfg))
  /\ inflight' = inflight \ {j}
  /\ IF j.kind = "final"
     THEN handleProcess_Resolved(j)
     ELSE updateIntermediateImage_Resolved(j)
  /\ UNCHANGED <<originalImage, config, configRef, origDimensions, isCropping,
                 aiStatus, aiResult, timeoutRef, isFirstLoadRef, viewVars, stageVars,
                 timers, cropVars, emitted, firedSinceChange, fnVars>>

\* the slip of leaving the indicator on
IndicatorAfterFailure_LeftOn(kind) == isProcessing
\* the indicator after a render failed: handleProcess clears it in its
\* finally block (line 168), updateIntermediateImage only logs (line 85)
IndicatorAfterFailure(kind) == IF kind = "final" THEN FALSE ELSE isProcessing

\* a processImage promise rejects: the source does not decode, or a canvas
\* context could not be obtained (types.ts:85, 134)
RenderReject(j) ==
  /\ j \in inflight
  /\ j.kind # "analysis"
  /\ ~canvasOk \/ IsError(processImage(j.src, j.cfg))
  /\ inflight' = inflight \ {j}
  /\ isProcessing' = IndicatorAfterFailure(j.kind)
  /\ UNCHANGED <<originalImage, processedImage, intermediateImage, processedSize,
                 config, configRef, origDimensions, isCropping, aiStatus, aiResult,
                 timeoutRef, isFirstLoadRef, viewVars, stageVars, timers, imgLoads,
                 cropVars, emitted, firedSinceChange, fnVars>>


(***************************************************************************)
(* src/App.tsx:200-211, src/components/AIInsights.tsx: the analysis        *)
(***************************************************************************)
\* a pending analyzeImageWithGemini(processedImage, config.format); the id
\* tells two requests for the same raster apart
AnalysisIds == {j.id : j \in {k \in inflight : k.kind = "analysis"}}
AnalysisJob(img, format) ==
  [ kind |-> "analysis",
    id |-> CHOOSE i \in 1..(Cardinality(inflight) + 1) : i \notin AnalysisIds,
    img |-> img,
    format |-> format ]

\* what the service answers about a raster
AnalysisResult(j) == [of |-> j.img, format |-> j.format]

\* the Analyze Image button (AIInsights.tsx:23-35) or the Regenerate
\* Analysis link (AIInsights.tsx:44, 76-81) is on the page
AnalyzeShown ==
  /\ PanelShown
  /\ ~isCropping
  /\ \/ aiStatus = "IDLE" /\ aiResult = NullObj
     \/ aiResult # NullObj

\* handleAIAnalysis up to its await (App.tsx:200-205)
Analyze ==
  /\ AnalyzeShown
  /\ IF processedImage = NullObj
     THEN UNCHANGED <<aiStatus, inflight>>
     ELSE /\ aiStatus' = "ANALYZING"
          /\ inflight' = inflight \cup {AnalysisJob(processedImage, config.format)}
          /\ Cardinality(inflight') + Cardinality(imgLoads) <= MaxInflight
  /\ UNCHANGED <<originalImage, processedImage, intermediateImage, processedSize,
                 config, configRef, origDimensions, isCropping, aiResult, isProcessing,
                 timeoutRef, isFirstLoadRef, viewVars, stageVars, timers, imgLoads,
                 cropVars, emitted, firedSinceChange, fnVars>>

\* the request resolves (App.tsx:206-207)
AnalysisResolve(j) ==
  /\ j \in inflight
  /\ j.kind = "analysis"
  /\ inflight' = inflight \ {j}
  /\ aiResult' = AnalysisResult(j)
  /\ aiStatus' = "SUCCESS"
  /\ UNCHANGED <<originalImage, processedImage, intermediateImage, processedSize,
                 config, configRef, origDimensions, isCropping, isProcessing,
                 timeoutRef, isFirstLoadRef, viewVars, stageVars, timers, imgLoads,
                 cropVars, emitted, firedSinceChange, fnVars>>

\* the slip of dropping the stored result with the failure
StatusAfterFailure_ResultDropped == [status |-> "ERROR", result |-> NullObj]
\* what the catch block leaves (App.tsx:208-210)
StatusAfterFailure == [status |-> "ERROR", result |-> aiResult]

\* the request rejects
AnalysisReject(j) ==
  /\ j \in inflight
  /\ j.kind = "analysis"
  /\ inflight' = inflight \ {j}
  /\ aiResult' = StatusAfterFailure.result
  /\ aiStatus' = StatusAfterFailure.status
  /\ UNCHANGED <<originalImage, processedImage, intermediateImage, processedSize,
                 config, configRef, origDimensions, isCropping, isProcessing,
                 timeoutRef, isFirstLoadRef, viewVars, stageVars, timers, imgLoads,
                 cropVars, emitted, firedSinceChange, fnVars>>

\* handleDrop of a file whose type is not an image (App.tsx:189)
DropOther ==
  UNCHANGED <<appVars, viewVars, envVars, cropVars, emitted, firedSinceChange, fnVars>>

(***************************************************************************)
(* The editor                                                              *)
(***************************************************************************)
StageOfEditor == [width |-> 120, height |-> 100]

InitApp ==
  /\ originalImage = NoImage
  /\ processedImage = NullObj
  /\ intermediateImage = NullObj
  /\ processedSize = NoSize
  /\ config = INITIAL_CONFIG
  /\ configRef = "INITIAL_CONFIG"
  /\ origDimensions = [width |-> Zero, height |-> Zero]
  /\ isCropping = FALSE
  /\ aiStatus = "IDLE"
  /\ aiResult = NullObj
  /\ isProcessing = FALSE
  /\ timeoutRef = NoTimer
  /\ isFirstLoadRef = FALSE

InitView ==
  /\ viewTransform = [scale |-> R(1), x |-> Zero, y |-> Zero]
  /\ isDragging = FALSE
  /\ dragStartRef = [x |-> 0, y |-> 0]
  /\ viewStartRef = [x |-> Zero, y |-> Zero]

InitEnv ==
  /\ timers = {}
  /\ imgLoads = {}
  /\ inflight = {}

InitOverlay ==
  /\ cropIsDragging = FALSE
  /\ cropDragType = NoDragType
  /\ cropDragStartRef = NoDragStart

InitObs ==
  /\ emitted = NullObj
  /\ firedSinceChange = <<>>
  /\ userEvents = 0
  /\ observed = [op |-> "none"]

InitFn ==
  /\ call = NullObj
  /\ ret = NullObj

Init ==
  /\ InitApp
  /\ InitView
  /\ InitEnv
  /\ container = StageOfEditor
  /\ canvasOk \in BOOLEAN
  /\ InitOverlay
  /\ InitObs
  /\ InitFn

\* a user event, counted against the run's budget
User(A) ==
  /\ userEvents < MaxUserEvents
  /\ userEvents' = userEvents + 1
  /\ A
  /\ UNCHANGED observed
\* a completion the browser delivers
Async(A) == A /\ UNCHANGED <<userEvents, observed>>

\* pointer positions and buttons tried in the editor
EditorFiles == {f \in Files : f.id \in {"a", "corrupt"}}
EditorDown == {<<0, 0>>}
EditorMoves == {<<-16, -8>>}
EditorDragTypes == {"se"}
EditorRatios == {Null}
EditorFormats == {"image/png"}

\* The editor's run tries one handler of each kind of commit: a transform
\* edit, an edit of another key, the crop buttons, the two resets, a crop
\* drag and a file load.
Next ==
  \/ \E f \in EditorFiles : User(LoadFile(f))
  \/ User(RotateRight)
  \/ \E fmt \in EditorFormats : User(SetFormat(fmt))
  \/ \E r \in EditorRatios : User(EnterCrop(r))
  \/ User(ExitCrop)
  \/ User(CropOriginal)
  \/ User(PanelReset)
  \/ \E type \in EditorDragTypes, p \in EditorDown :
        User(CropMouseDown(type, p[1], p[2]))
  \/ \E p \in EditorMoves : User(MouseMove(p[1], p[2]))
  \/ User(MouseUp)
  \/ \E t \in timers : Async(TimerFire(t))
  \/ \E l \in imgLoads : Async(MetaOnload(l))
  \/ \E l \in imgLoads : Async(ImgError(l))
  \/ \E l \in imgLoads : Async(FitOnload(l))
  \/ \E j \in inflight : Async(RenderResolve(j))
  \/ \E j \in inflight : Async(RenderReject(j))

Spec == Init /\ [][Next]_vars

(***************************************************************************)
(* getTransformedDimensions applied to bounded inputs                      *)
(***************************************************************************)
MaxDim == 3
DimSizes == {R(n) : n \in (0..MaxDim) \cup {600, 800}}
Rotations == {0, 90, 180, 270}

DimCalls ==
  { [fn |-> "getTransformedDimensions", width |-> w, height |-> h, rotation |-> r] :
      w \in DimSizes, h \in DimSizes, r \in Rotations }

InitDims ==
  /\ InitApp
  /\ InitView
  /\ InitEnv
  /\ container = StageOfEditor
  /\ canvasOk = TRUE
  /\ InitOverlay
  /\ InitObs
  /\ call \in DimCalls
  /\ ret = NullObj

ApplyDims ==
  /\ ret = NullObj
  /\ ret' = getTransformedDimensions(call.width, call.height, call.rotation)
  /\ UNCHANGED <<appVars, viewVars, envVars, cropVars, obsVars, call>>

SpecDims == InitDims /\ [][ApplyDims]_vars

\* C10: getTransformedDimensions(width, height, rotation) returns (height,
\* width) when rotation is 90 or 270 and (width, height) when rotation is 0
\* or 180, for all widths and heights; 800x600 at rotation 90 gives 600x800.
C10_SwapsAtQuarterTurns ==
  ret # NullObj =>
    /\ call.rotation \in {90, 270} =>
         ret = [width |-> call.height, height |-> call.width]
    /\ call.rotation \in {0, 180} =>
         ret = [width |-> call.width, height |-> call.height]
    /\ call.width = R(800) /\ call.height = R(600) /\ call.rotation = 90 =>
         ret = [width |-> R(600), height |-> R(800)]

\* 800x600 at rotation 90 has been computed
C10_Witness ==
  /\ call.width = R(800) /\ call.height = R(600) /\ call.rotation = 90
  /\ ret = [width |-> R(600), height |-> R(800)]

(***************************************************************************)
(* processImage applied to bounded inputs                                  *)
(***************************************************************************)
MaxTargets == 1      \* target sizes tried, in steps of 200 pixels

RenderFiles == {f \in Files \cup SceneFiles : f.ok}
Flips == BOOLEAN \X BOOLEAN
\* no rectangle, the rectangle of Scenario B, and the free-crop seed of a
\* 12x20 image, {0.6, 1, 10.8, 18}
RenderRects ==
  { NullObj,
    [x |-> R(100), y |-> R(50), width |-> R(400), height |-> R(300)],
    SeedRect(R(12), R(20), Null) }
RenderRatios == {Null, R(1), Frac(16, 9)}
RenderTargets == {R(200 * k) : k \in 0..MaxTargets}

RenderCalls ==
  { [ fn |-> "processImage",
      src |-> f.id,
      cfg |-> [INITIAL_CONFIG EXCEPT !.rotation = rotation,
                                     !.flipHorizontal = flip[1],
                                     !.flipVertical = flip[2],
                                     !.cropRect = rect,
                                     !.cropRatio = ratio,
                                     !.targetWidth = tw,
                                     !.targetHeight = th] ] :
      f \in RenderFiles, rotation \in Rotations, flip \in Flips, rect \in RenderRects,
      ratio \in RenderRatios, tw \in RenderTargets, th \in RenderTargets }

InitRender ==
  /\ InitApp
  /\ InitView
  /\ InitEnv
  /\ container = StageOfEditor
  /\ canvasOk = TRUE
  /\ InitOverlay
  /\ InitObs
  /\ call \in RenderCalls
  /\ ret = NullObj

\* handleProcess's and updateIntermediateImage's calls of processImage for
\* the same source and configuration (App.tsx:76-82, 157)
ApplyRender ==
  /\ ret = NullObj
  /\ ret' = [ final |-> processImage(call.src, call.cfg),
              intermediate |-> processImage(call.src, IntermediateConfig(call.cfg)) ]
  /\ UNCHANGED <<appVars, viewVars, envVars, cropVars, obsVars, call>>

SpecRender == InitRender /\ [][ApplyRender]_vars

\* the natural size of the rendered file, as it stands after the rotation
NaturalWidth == FileOf(call.src).width
NaturalHeight == FileOf(call.src).height
Turned == call.cfg.rotation \in {90, 270}
Uncropped ==
  /\ call.cfg.cropRect = NullObj
  /\ call.cfg.cropRatio = Null
  /\ call.cfg.targetWidth = Zero
  /\ call.cfg.targetHeight = Zero

\* C11: for every rotation in {0, 90, 180, 270} and every flip combination,
\* processImage with no crop and no target size produces a raster of exactly
\* the natural size, swapped at 90 and 270; the intermediate raster the app
\* requests has these dimensions whatever crop rectangle, crop ratio and
\* target size the configuration holds.
C11_UncroppedRasterHasTurnedSize ==
  ret # NullObj =>
    /\ Uncropped =>
         /\ ret.final.width = (IF Turned THEN NaturalHeight ELSE NaturalWidth)
         /\ ret.final.height = (IF Turned THEN NaturalWidth ELSE NaturalHeight)
    /\ ret.intermediate.width = (IF Turned THEN NaturalHeight ELSE NaturalWidth)
    /\ ret.intermediate.height = (IF Turned THEN NaturalWidth ELSE NaturalHeight)

\* the 800x600 picture turned by 270 degrees, flipped, with a crop rectangle
\* and a target width in the configuration: the intermediate raster is 600x800
C11_Witness ==
  /\ ret # NullObj
  /\ call.src = "scene"
  /\ call.cfg.rotation = 270
  /\ call.cfg.flipHorizontal
  /\ call.cfg.cropRect # NullObj
  /\ call.cfg.targetWidth = R(200)
  /\ ret.intermediate.width = 600
  /\ ret.intermediate.height = 800

\* the intermediate raster's size for the call
TurnedWidth == R(IF Turned THEN NaturalHeight ELSE NaturalWidth)
TurnedHeight == R(IF Turned THEN NaturalWidth ELSE NaturalHeight)

SceneBRect == [x |-> R(100), y |-> R(50), width |-> R(400), height |-> R(300)]

C16_SourceRectSelection ==
  ret # NullObj =>
    LET f == ret.final
        rect == call.cfg.cropRect
        ratio == call.cfg.cropRatio
    IN  /\ rect # NullObj =>
             /\ f.sx = rect.x
             /\ f.sy = rect.y
             /\ f.sWidth = rect.width
             /\ f.sHeight = rect.height
        /\ rect = NullObj /\ ratio # Null =>
             /\ Div(f.sWidth, f.sHeight) = ratio
             /\ f.sx = Div(Sub(TurnedWidth, f.sWidth), R(2))
             /\ f.sy = Div(Sub(TurnedHeight, f.sHeight), R(2))
             /\ Le(f.sWidth, TurnedWidth)
             /\ Le(f.sHeight, TurnedHeight)
             /\ f.sWidth = TurnedWidth \/ f.sHeight = TurnedHeight
        /\ rect = NullObj /\ ratio = Null =>
             /\ f.sx = Zero
             /\ f.sy = Zero
             /\ f.sWidth = TurnedWidth
             /\ f.sHeight = TurnedHeight

\* the 800x600 picture turned to 600x800 with ratio 16:9 and no rectangle:
\* the source rectangle is 600 x 337.5 at (0, 231.25)
C16_Witness ==
  /\ ret # NullObj
  /\ call.src = "scene"
  /\ call.cfg.rotation = 90
  /\ call.cfg.cropRect = NullObj
  /\ call.cfg.cropRatio = Frac(16, 9)
  /\ ret.final.sx = Zero
  /\ ret.final.sy = Frac(925, 4)
  /\ ret.final.sWidth = R(600)
  /\ ret.final.sHeight = Frac(675, 2)

(***************************************************************************)
(* Pan and zoom over a loaded image                                        *)
(***************************************************************************)
MaxViewEvents == 3   \* pan/zoom events in one run

ViewFiles == {f \in Files \cup LargeFiles : f.ok}
WheelDeltas == {-100, 100, -20000, 20000}
ViewPoints == {<<0, 0>>, <<60, 50>>}
ViewMoves == {<<8, 12>>}

\* The editor right after the first intermediate raster of a freshly loaded
\* file arrived: the renders of the load are over, the auto-fit's image is
\* still loading.
InitLoaded ==
  /\ \E f \in ViewFiles :
       /\ originalImage = f.id
       /\ origDimensions = [width |-> R(f.width), height |-> R(f.height)]
       /\ intermediateImage = processImage(f.id, IntermediateConfig(INITIAL_CONFIG))
       /\ processedImage = processImage(f.id, INITIAL_CONFIG)
       /\ processedSize = EncodedSize(processImage(f.id, INITIAL_CONFIG))
       /\ imgLoads = {[kind |-> "fit",
                       img |-> processImage(f.id, IntermediateConfig(INITIAL_CONFIG))]}
  /\ config = INITIAL_CONFIG
  /\ configRef = "INITIAL_CONFIG"
  /\ isCropping = FALSE
  /\ aiStatus = "IDLE"
  /\ aiResult = NullObj
  /\ isProcessing = FALSE
  /\ timeoutRef = NoTimer
  /\ isFirstLoadRef = TRUE
  /\ InitView
  /\ container \in Containers
  /\ canvasOk = TRUE
  /\ timers = {}
  /\ inflight = {}
  /\ InitOverlay
  /\ InitObs
  /\ InitFn

\* a pan/zoom event, counted against the run's budget and observed
View(A, op) ==
  /\ userEvents < MaxViewEvents
  /\ userEvents' = userEvents + 1
  /\ A
  /\ observed' = op

NextView ==
  \/ \E l \in imgLoads :
       /\ FitOnload(l)
       /\ observed' = [op |-> "fit"]
       /\ UNCHANGED userEvents
  \/ \E deltaY \in WheelDeltas, p \in ViewPoints :
       View(handleWheel(deltaY, p[1], p[2]),
            [op |-> "wheel", px |-> R(p[1]), py |-> R(p[2]), before |-> viewTransform])
  \/ View(zoomIn, [op |-> "zoomIn", before |-> viewTransform])
  \/ View(zoomOut, [op |-> "zoomOut", before |-> viewTransform])
  \/ View(ResetViewButton, [op |-> "reset"])
  \/ \E p \in ViewPoints : View(StageMouseDown(p[1], p[2]), [op |-> "down"])
  \/ \E p \in ViewMoves : View(MouseMove(p[1], p[2]), [op |-> "move"])
  \/ View(MouseUp, [op |-> "up"])

SpecView == InitLoaded /\ [][NextView]_vars

\* the content-space point under the screen point (px, py)
ContentPoint(vt, px, py) ==
  <<Div(Sub(px, vt.x), vt.scale), Div(Sub(py, vt.y), vt.scale)>>

CenterX == Div(R(container.width), R(2))
CenterY == Div(R(container.height), R(2))

\* C8: for every view transform with positive scale, after a wheel zoom at
\* pointer (px, py) the content-space point under the pointer is the same
\* before and after the zoom, and after the zoom-in and zoom-out buttons the
\* content-space point at the container's centre is the same.
C8_ZoomKeepsAnchor ==
  /\ observed.op = "wheel" /\ Gt(observed.before.scale, Zero) =>
       ContentPoint(viewTransform, observed.px, observed.py)
         = ContentPoint(observed.before, observed.px, observed.py)
  /\ observed.op \in {"zoomIn", "zoomOut"} /\ Gt(observed.before.scale, Zero) =>
       ContentPoint(viewTransform, CenterX, CenterY)
         = ContentPoint(observed.before, CenterX, CenterY)

\* a wheel zoom off the origin changed the scale of a fitted, offset view
C8_Witness ==
  /\ observed.op = "wheel"
  /\ Gt(observed.before.scale, Zero)
  /\ observed.px # Zero
  /\ observed.before.x # Zero
  /\ viewTransform.scale # observed.before.scale
  /\ viewTransform.x # observed.before.x

\* C9: in every reachable state, after any sequence of auto-fit, wheel zoom,
\* zoom-in, zoom-out, pan and reset-view, the view transform's scale lies in
\* [0.05, 10]; stated here for the stages that are wider and taller than
\* the fit padding.
C9_ScaleInRange ==
  container.width > Padding /\ container.height > Padding =>
    Ge(viewTransform.scale, MinScale) /\ Le(viewTransform.scale, MaxScale)

\* scale = min((cw - 40)/w, (ch - 40)/h, 1) and the centring translation
CentredFit(contentWidth, contentHeight, containerWidth, containerHeight) ==
  LET scale == MathMin(MathMin(Div(Sub(containerWidth, R(40)), contentWidth),
                               Div(Sub(containerHeight, R(40)), contentHeight)),
                       R(1))
  IN  [ scale |-> scale,
        x |-> Div(Sub(containerWidth, Mul(contentWidth, scale)), R(2)),
        y |-> Div(Sub(containerHeight, Mul(contentHeight, scale)), R(2)) ]

\* C21: both the auto-fit on first load and the reset-view action set
\* scale = min((containerWidth - 40)/contentWidth,
\* (containerHeight - 40)/contentHeight, 1), x = (containerWidth -
\* contentWidth*scale)/2 and y = (containerHeight - contentHeight*scale)/2,
\* the content dimensions being those of the intermediate raster; the scale
\* never exceeds 1.
C21_FitToContainer ==
  observed.op \in {"fit", "reset"} =>
    /\ viewTransform = CentredFit(R(intermediateImage.width), R(intermediateImage.height),
                                  R(container.width), R(container.height))
    /\ Le(viewTransform.scale, R(1))

(***************************************************************************)
(* The crop overlay over a loaded image                                    *)
(***************************************************************************)
MaxCropEvents == 4   \* pointer events in one run

CropFiles == {f \in Files : f.ok}
CropRotations == {0, 90}
CropScales == {R(1), Frac(1, 2), R(2)}
CropDown == {<<0, 0>>}
CropMoves == {<<-40, -40>>, <<-12, -8>>, <<8, 12>>, <<40, 40>>}

\* the image bounds the overlay is given (App.tsx:586)
imageDimensions ==
  getTransformedDimensions(origDimensions.width, origDimensions.height, config.rotation)

\* 0 <= x, 0 <= y, x + width <= boundsWidth, y + height <= boundsHeight
Contained(rect, bounds) ==
  /\ Ge(rect.x, Zero)
  /\ Ge(rect.y, Zero)
  /\ Le(Add(rect.x, rect.width), bounds.width)
  /\ Le(Add(rect.y, rect.height), bounds.height)

\* width >= 10 and height >= 10
MinSized(rect) == Ge(rect.width, R(10)) /\ Ge(rect.height, R(10))

\* The editor in crop mode right after a ratio button was clicked on a
\* loaded, rendered image, for the seeds of handleToggleCrop that lie inside
\* bounds of at least 10x10 and are at least 10x10 themselves.
InitCropping ==
  /\ \E f \in CropFiles, rotation \in CropRotations, ratio \in AspectRatios :
       LET cfg == [INITIAL_CONFIG EXCEPT !.rotation = rotation]
           dims == getTransformedDimensions(R(f.width), R(f.height), rotation)
           rect == SeedRect(dims.width, dims.height, ratio)
       IN  /\ Contained(rect, dims)
           /\ MinSized(rect)
           /\ originalImage = f.id
           /\ origDimensions = [width |-> R(f.width), height |-> R(f.height)]
           /\ intermediateImage = processImage(f.id, IntermediateConfig(cfg))
           /\ processedImage = processImage(f.id, cfg)
           /\ processedSize = EncodedSize(processImage(f.id, cfg))
           /\ config = [cfg EXCEPT !.cropRatio = ratio, !.cropRect = rect]
  /\ configRef = "object"
  /\ isCropping = TRUE
  /\ aiStatus = "IDLE"
  /\ aiResult = NullObj
  /\ isProcessing = FALSE
  /\ timeoutRef = NoTimer
  /\ isFirstLoadRef = FALSE
  /\ \E scale \in CropScales :
       viewTransform = [scale |-> scale, x |-> Zero, y |-> Zero]
  /\ isDragging = FALSE
  /\ dragStartRef = [x |-> 0, y |-> 0]
  /\ viewStartRef = [x |-> Zero, y |-> Zero]
  /\ container = StageOfEditor
  /\ canvasOk = TRUE
  /\ InitEnv
  /\ InitOverlay
  /\ InitObs
  /\ InitFn

\* a pointer event, counted against the run's budget
Pointer(A) ==
  /\ userEvents < MaxCropEvents
  /\ userEvents' = userEvents + 1
  /\ A
  /\ UNCHANGED observed

NextCrop ==
  \/ \E type \in DragTypes, p \in CropDown : Pointer(CropMouseDown(type, p[1], p[2]))
  \/ \E p \in CropMoves : Pointer(MouseMove(p[1], p[2]))
  \/ Pointer(MouseUp)

SpecCrop == InitCropping /\ [][NextCrop]_vars

\* C1: starting from a crop rectangle inside image bounds of at least 10x10
\* with width and height >= 10, after any sequence of crop-editor gestures,
\* with or without a locked aspect ratio, every rectangle emitted through
\* onChange satisfies 0 <= x, 0 <= y, x+width <= boundsWidth,
\* y+height <= boundsHeight, width >= 10 and height >= 10.
C1_EmittedContainedAndMinSized ==
  emitted # NullObj =>
    Contained(emitted.rect, imageDimensions) /\ MinSized(emitted.rect)

\* C3: when an aspect ratio r is locked, after every pointer-move of a
\* corner-resize gesture the emitted rectangle has width/height equal to r,
\* unless it was clamped by the minimum size or by the image bounds, in which
\* case it still satisfies the containment and minimum-size property.
C3_AspectLock ==
  emitted # NullObj /\ emitted.locked /\ emitted.dragType \in Corners =>
    IF emitted.clamped
    THEN Contained(emitted.rect, imageDimensions) /\ MinSized(emitted.rect)
    ELSE Div(emitted.rect.width, emitted.rect.height) = config.cropRatio

(***************************************************************************)
(* Properties of the editor                                                *)
(***************************************************************************)
\* the natural size of the loaded source
SourceDimensions ==
  [width |-> R(FileOf(originalImage).width), height |-> R(FileOf(originalImage).height)]

\* C2: in every reachable editor state, whenever config.cropRect is non-null
\* it lies within [0, intermediateWidth] x [0, intermediateHeight], the
\* intermediate dimensions being those of the currently loaded source under
\* the current rotation; in particular, rotating by 90 degrees after a crop
\* was applied must not leave a rectangle that exceeds the swapped bounds.
\* (The containment half of the invariant, for a source that decodes.)
C2_CropRectWithinIntermediate ==
  /\ originalImage # NoImage
  /\ FileOf(originalImage).ok
  /\ config.cropRect # NullObj
  => Contained(config.cropRect,
               getTransformedDimensions(SourceDimensions.width,
                                        SourceDimensions.height, config.rotation))

\* C4: at any time at most one debounced render is pending, and it carries
\* the current configuration; every configuration change outside crop mode
\* cancels the pending render and schedules a new one; between two runs of
\* the debounce effect at most one render is invoked by the timer, with the
\* last configuration.
C4_DebounceLastWriteWins ==
  /\ [](/\ Cardinality(timers) <= 1
        /\ \A t \in timers : t.cfg = config /\ t.id = timeoutRef
        /\ Cardinality(timers) + Len(firedSinceChange) <= 1
        /\ \A i \in 1..Len(firedSinceChange) : firedSinceChange[i].cfg = config)
  /\ [][config' # config /\ ~isCropping' /\ originalImage' # NoImage =>
          /\ timers' \cap timers = {}
          /\ Cardinality(timers') = 1
          /\ firedSinceChange' = <<>>]_vars

\* two edits in a row: the render of the first was dropped, the render of
\* the second is pending
C4_Witness ==
  /\ config.rotation = 90
  /\ config.format = "image/png"
  /\ Cardinality(timers) = 1
  /\ firedSinceChange = <<>>
  /\ inflight = {}
  /\ processedImage = processImage(originalImage, INITIAL_CONFIG)

\* the user stopped editing outside crop mode on a source that decodes,
\* with canvases available, and every timer, load and render is over
Settled ==
  /\ originalImage # NoImage
  /\ FileOf(originalImage).ok
  /\ canvasOk
  /\ ~isCropping
  /\ timers = {}
  /\ imgLoads = {}
  /\ inflight = {}

\* C5: once the user stops editing outside crop mode and every pending timer
\* and in-flight render has completed, processedImage is the render of the
\* currently loaded source image with the current configuration.
C5_SettledConfigurationWins ==
  Settled => processedImage = processImage(originalImage, config)

\* C6: while crop mode is active no configuration change schedules or invokes
\* the final render, and any render still pending when crop mode is entered
\* is cancelled; when crop mode is exited exactly one final render is
\* scheduled and it uses the configuration current at exit.
C6_CropModeSuppressesPipeline ==
  [][/\ isCropping' => timers' = {}
     /\ isCropping =>
          \A j \in inflight' \ inflight : ~(j.kind = "final" /\ j.by = "timer")
     /\ isCropping /\ ~isCropping' =>
          /\ Cardinality(timers') = 1
          /\ \A t \in timers' : t.cfg = config' /\ t.src = originalImage']_vars

\* crop mode was left with a crop rectangle: its render is pending
C6_Witness ==
  /\ ~isCropping
  /\ config.cropRect # NullObj
  /\ Cardinality(timers) = 1
  /\ \A t \in timers : t.cfg = config
  /\ firedSinceChange = <<>>
  /\ processedImage = processImage(originalImage, INITIAL_CONFIG)

\* the step in which the processImage promise j rejects
RenderFailed(j) ==
  /\ j \in inflight
  /\ j \notin inflight'
  /\ ~canvasOk \/ IsError(processImage(j.src, j.cfg))

RastersAndConfigKept ==
  /\ processedImage' = processedImage
  /\ processedSize' = processedSize
  /\ intermediateImage' = intermediateImage
  /\ config' = config

\* C7 as stated: when a final render or an intermediate render fails,
\* processedImage, processedSize, intermediateImage and the configuration
\* keep the values they had, and the processing indicator is cleared.
C7_FailureClearsIndicator ==
  [][\A j \in inflight :
       RenderFailed(j) => RastersAndConfigKept /\ isProcessing' = FALSE]_vars

\* C7, amended: when a final render or an intermediate render fails,
\* processedImage, processedSize, intermediateImage and the configuration
\* keep the values they had; the processing indicator is cleared when a
\* final render fails and is left as it was when an intermediate render
\* fails.
C7_FailureKeepsPriorState ==
  [][\A j \in inflight :
       RenderFailed(j) =>
         /\ RastersAndConfigKept
         /\ j.kind = "final" => isProcessing' = FALSE
         /\ j.kind = "intermediate" => isProcessing' = isProcessing]_vars

\* The intermediate render of a file that does not decode failed while the
\* final render was still scheduled: the rasters of the last successful
\* renders are still there.
C7_Witness ==
  /\ originalImage # NoImage
  /\ ~FileOf(originalImage).ok
  /\ inflight = {}
  /\ timers # {}
  /\ isProcessing
  /\ processedImage # NullObj
  /\ intermediateImage # NullObj

(***************************************************************************)
(* The rotate buttons, file loads and resets                               *)
(***************************************************************************)
MaxTurnEvents == 4   \* user events in one run

\* the loaded picture is picked again
TurnFiles == {f \in Files : f.id = "a"}

\* the rotation and the intermediate dimensions the app derives from it
\* (App.tsx:426)
Facing(cfg, dims) ==
  [ rotation |-> cfg.rotation,
    dims |-> getTransformedDimensions(dims.width, dims.height, cfg.rotation) ]

NoPresses == [op |-> "none"]

\* a press of a rotate button: the presses since the last other change of
\* the rotation are remembered with the rotation and intermediate dimensions
\* before each and after the last
Press(A, button) ==
  /\ userEvents < MaxTurnEvents
  /\ userEvents' = userEvents + 1
  /\ A
  /\ observed' =
       IF observed.op = "presses"
       THEN [ op |-> "presses",
              buttons |-> Append(observed.buttons, button),
              trail |-> Append(observed.trail, Facing(config', origDimensions')) ]
       ELSE [ op |-> "presses",
              buttons |-> <<button>>,
              trail |-> <<Facing(config, origDimensions),
                          Facing(config', origDimensions')>> ]

\* any other user event that sets the rotation
Interrupt(A) ==
  /\ userEvents < MaxTurnEvents
  /\ userEvents' = userEvents + 1
  /\ A
  /\ observed' = NoPresses

NextTurn ==
  \/ \E f \in TurnFiles : Interrupt(LoadFile(f))
  \/ Press(RotateLeft, "L")
  \/ Press(RotateRight, "R")
  \/ Interrupt(PanelReset)
  \/ \E t \in timers : Async(TimerFire(t))
  \/ \E l \in imgLoads : Async(FitOnload(l))
  \/ \E j \in inflight : Async(RenderResolve(j))

\* The editor after a 40x30 image was loaded, rendered and fitted to the
\* stage.
InitTurn ==
  /\ originalImage = "a"
  /\ origDimensions = [width |-> R(40), height |-> R(30)]
  /\ intermediateImage = processImage("a", IntermediateConfig(INITIAL_CONFIG))
  /\ processedImage = processImage("a", INITIAL_CONFIG)
  /\ processedSize = EncodedSize(processImage("a", INITIAL_CONFIG))
  /\ config = INITIAL_CONFIG
  /\ configRef = "INITIAL_CONFIG"
  /\ isCropping = FALSE
  /\ aiStatus = "IDLE"
  /\ aiResult = NullObj
  /\ isProcessing = FALSE
  /\ timeoutRef = NoTimer
  /\ isFirstLoadRef = FALSE
  /\ viewTransform = FitTransform(R(40), R(30), R(StageOfEditor.width),
                                  R(StageOfEditor.height))
  /\ isDragging = FALSE
  /\ dragStartRef = [x |-> 0, y |-> 0]
  /\ viewStartRef = [x |-> Zero, y |-> Zero]
  /\ container = StageOfEditor
  /\ canvasOk = TRUE
  /\ InitEnv
  /\ InitOverlay
  /\ InitObs
  /\ InitFn

SpecTurn == InitTurn /\ [][NextTurn]_vars

\* buttons i .. i+n-1 of the remembered presses are all b
Run(i, n, b) ==
  /\ i + n - 1 <= Len(observed.buttons)
  /\ \A k \in i..(i + n - 1) : observed.buttons[k] = b

\* C12: from any configuration, pressing rotate-right four times, or
\* rotate-left four times, or rotate-left followed by rotate-right, returns
\* the rotation to its starting value and the intermediate dimensions to
\* exactly their starting width and height.
C12_RotationRoundTrip ==
  observed.op = "presses" =>
    \A i \in 1..Len(observed.buttons) :
      /\ Run(i, 4, "R") => observed.trail[i + 4] = observed.trail[i]
      /\ Run(i, 4, "L") => observed.trail[i + 4] = observed.trail[i]
      /\ Run(i, 1, "L") /\ Run(i + 1, 1, "R") =>
           observed.trail[i + 2] = observed.trail[i]

\* the fourth press of rotate-right in a row on the 40x30 image, after the
\* dimensions went through 30x40
C12_Witness ==
  /\ observed.op = "presses"
  /\ observed.buttons = <<"R", "R", "R", "R">>
  /\ observed.trail[1].dims = [width |-> R(40), height |-> R(30)]
  /\ observed.trail[2].dims = [width |-> R(30), height |-> R(40)]
  /\ observed.trail[5] = observed.trail[1]

\* C13: in every reachable state, after any sequence of file loads,
\* rotate-left, rotate-right and resets, config.rotation is one of 0, 90,
\* 180, 270.
C13_RotationDomain == config.rotation \in {0, 90, 180, 270}

\* rotate-left pressed at rotation 0 wrapped to 270
C13_Witness ==
  /\ observed.op = "presses"
  /\ observed.buttons = <<"L">>
  /\ observed.trail[1].rotation = 0
  /\ config.rotation = 270

(***************************************************************************)
(* One gesture on the crop overlay                                         *)
(***************************************************************************)
MaxDragEvents == 2   \* pointer-moves of the gesture

\* the picture, the crop rectangle and the locked ratio when the pointer
\* went down: the free-crop seed of the 40x30 picture, free or held at 4:3
\* by the Custom highlight, and two rectangles dragged out on the 800x600
\* picture
DragScenes ==
  { [file |-> "a", rect |-> SeedRect(R(40), R(30), Null), ratio |-> Null],
    [file |-> "a", rect |-> SeedRect(R(40), R(30), Frac(4, 3)), ratio |-> Frac(4, 3)],
    [file |-> "scene", rect |-> [x |-> Zero, y |-> Zero, width |-> R(100), height |-> R(100)],
     ratio |-> Null],
    [file |-> "scene", rect |-> SceneBRect, ratio |-> Null],
    [file |-> "scene", rect |-> SceneBRect, ratio |-> Frac(4, 3)] }
DragDown == {<<0, 0>>, <<5, 7>>}
DragMoves == {<<20, 20>>, <<25, 27>>, <<-40, -40>>, <<-1200, 900>>}

\* The editor in crop mode right after a pointer-down on the overlay's body
\* or on one of its handles.
InitDragging ==
  /\ \E scene \in DragScenes :
       LET f == FileOf(scene.file)
       IN  /\ originalImage = f.id
           /\ origDimensions = [width |-> R(f.width), height |-> R(f.height)]
           /\ intermediateImage = processImage(f.id, IntermediateConfig(INITIAL_CONFIG))
           /\ processedImage = processImage(f.id, INITIAL_CONFIG)
           /\ processedSize = EncodedSize(processImage(f.id, INITIAL_CONFIG))
           /\ config = [INITIAL_CONFIG EXCEPT !.cropRatio = scene.ratio,
                                              !.cropRect = scene.rect]
           /\ \E type \in DragTypes, p \in DragDown :
                /\ cropDragType = type
                /\ cropDragStartRef = [x |-> p[1], y |-> p[2], rect |-> scene.rect]
  /\ cropIsDragging = TRUE
  /\ configRef = "object"
  /\ isCropping = TRUE
  /\ aiStatus = "IDLE"
  /\ aiResult = NullObj
  /\ isProcessing = FALSE
  /\ timeoutRef = NoTimer
  /\ isFirstLoadRef = FALSE
  /\ \E scale \in CropScales :
       viewTransform = [scale |-> scale, x |-> Zero, y |-> Zero]
  /\ isDragging = FALSE
  /\ dragStartRef = [x |-> 0, y |-> 0]
  /\ viewStartRef = [x |-> Zero, y |-> Zero]
  /\ container = StageOfEditor
  /\ canvasOk = TRUE
  /\ InitEnv
  /\ InitObs
  /\ InitFn

\* a pointer-move of the gesture, observed with what the overlay held
Drag(A, clientX, clientY) ==
  /\ userEvents < MaxDragEvents
  /\ userEvents' = userEvents + 1
  /\ A
  /\ observed' = [ op |-> "drag",
                   type |-> cropDragType,
                   anchor |-> cropDragStartRef.rect,
                   screenDx |-> clientX - cropDragStartRef.x,
                   screenDy |-> clientY - cropDragStartRef.y,
                   scale |-> viewTransform.scale,
                   bounds |-> imageDimensions,
                   locked |-> Truthy(config.cropRatio) ]

NextDrag == \E p \in DragMoves : Drag(MouseMove(p[1], p[2]), p[1], p[2])

SpecDrag == InitDragging /\ [][NextDrag]_vars

\* v held to [lo, hi]
Clamp(v, lo, hi) == IF Lt(v, lo) THEN lo ELSE IF Gt(v, hi) THEN hi ELSE v

\* the pointer's movement in content space
ContentDx == Div(R(observed.screenDx), observed.scale)
ContentDy == Div(R(observed.screenDy), observed.scale)

\* C17: on every pointer-move of a 'move' gesture the emitted rectangle has
\* exactly the anchor rectangle's width and height, and its x (resp. y)
\* equals anchor x + content delta clamped to [0, boundsWidth - width]
\* (resp. [0, boundsHeight - height]).
C17_MoveIsClampedTranslation ==
  observed.op = "drag" /\ observed.type = "move" =>
    LET a == observed.anchor
    IN  /\ emitted.rect.width = a.width
        /\ emitted.rect.height = a.height
        /\ emitted.rect.x = Clamp(Add(a.x, ContentDx), Zero,
                                  Sub(observed.bounds.width, a.width))
        /\ emitted.rect.y = Clamp(Add(a.y, ContentDy), Zero,
                                  Sub(observed.bounds.height, a.height))

\* the 400x300 rectangle at (100, 50) of the 800x600 picture, moved by the
\* screen delta (-1200, 900) at scale 2: held at x = 0 and at y = 300
C17_Witness ==
  /\ observed.op = "drag"
  /\ observed.type = "move"
  /\ observed.anchor = SceneBRect
  /\ observed.scale = R(2)
  /\ observed.screenDx = -1200
  /\ observed.screenDy = 900
  /\ emitted.rect = [x |-> Zero, y |-> R(300), width |-> R(400), height |-> R(300)]
  /\ config.cropRect = emitted.rect

\* the edges of the anchor rectangle with the dragged corner moved by the
\* content delta
MovedLeft ==
  IF observed.type \in {"nw", "sw"}
  THEN Add(observed.anchor.x, ContentDx) ELSE observed.anchor.x
MovedRight ==
  IF observed.type \in {"ne", "se"}
  THEN Add(Add(observed.anchor.x, observed.anchor.width), ContentDx)
  ELSE Add(observed.anchor.x, observed.anchor.width)
MovedTop ==
  IF observed.type \in {"nw", "ne"}
  THEN Add(observed.anchor.y, ContentDy) ELSE observed.anchor.y
MovedBottom ==
  IF observed.type \in {"sw", "se"}
  THEN Add(Add(observed.anchor.y, observed.anchor.height), ContentDy)
  ELSE Add(observed.anchor.y, observed.anchor.height)

C18_Free ==
  /\ Ge(MovedLeft, Zero)
  /\ Ge(MovedTop, Zero)
  /\ Le(MovedRight, observed.bounds.width)
  /\ Le(MovedBottom, observed.bounds.height)
  /\ Ge(Sub(MovedRight, MovedLeft), R(10))
  /\ Ge(Sub(MovedBottom, MovedTop), R(10))

\* C18: in an unlocked corner resize that stays within bounds and above the
\* minimum size, the dragged corner moves by exactly (screenDx/scale,
\* screenDy/scale) in content space; dragging the se handle of
\* {0,0,100,100} by screen delta (20,20) at scale 2 emits {0,0,110,110}.
C18_CornerFollowsPointer ==
  observed.op = "drag" /\ observed.type \in Corners /\ ~observed.locked =>
    /\ C18_Free =>
         emitted.rect = [ x |-> MovedLeft,
                          y |-> MovedTop,
                          width |-> Sub(MovedRight, MovedLeft),
                          height |-> Sub(MovedBottom, MovedTop) ]
    /\ /\ observed.type = "se"
       /\ observed.anchor = [x |-> Zero, y |-> Zero, width |-> R(100), height |-> R(100)]
       /\ observed.screenDx = 20
       /\ observed.screenDy = 20
       /\ observed.scale = R(2)
       => emitted.rect = [x |-> Zero, y |-> Zero, width |-> R(110), height |-> R(110)]

\* Scenario D, with the pointer gone down at (5, 7)
C18_Witness ==
  /\ observed.op = "drag"
  /\ observed.type = "se"
  /\ ~observed.locked
  /\ observed.anchor = [x |-> Zero, y |-> Zero, width |-> R(100), height |-> R(100)]
  /\ cropDragStartRef.x = 5
  /\ observed.screenDx = 20
  /\ observed.screenDy = 20
  /\ observed.scale = R(2)
  /\ emitted.rect = [x |-> Zero, y |-> Zero, width |-> R(110), height |-> R(110)]

\* the anchor rectangle lies within the picture
AnchorInBounds ==
  /\ Ge(observed.anchor.x, Zero)
  /\ Ge(observed.anchor.y, Zero)
  /\ Le(Add(observed.anchor.x, observed.anchor.width), observed.bounds.width)
  /\ Le(Add(observed.anchor.y, observed.anchor.height), observed.bounds.height)

\* C30: in every corner-resize pointer-move, locked or unlocked, starting from
\* an in-bounds anchor rectangle, the corner diagonally opposite the dragged
\* handle keeps exactly its anchor coordinates (se keeps the top-left corner,
\* nw keeps the bottom-right corner, ne keeps the bottom-left corner, sw
\* keeps the top-right corner).
C30_OppositeCornerFixed ==
  observed.op = "drag" /\ observed.type \in Corners /\ AnchorInBounds =>
    /\ observed.type \in {"se", "ne"} => emitted.rect.x = observed.anchor.x
    /\ observed.type \in {"se", "sw"} => emitted.rect.y = observed.anchor.y
    /\ observed.type \in {"nw", "sw"} =>
         Add(emitted.rect.x, emitted.rect.width)
           = Add(observed.anchor.x, observed.anchor.width)
    /\ observed.type \in {"nw", "ne"} =>
         Add(emitted.rect.y, emitted.rect.height)
           = Add(observed.anchor.y, observed.anchor.height)

\* the nw handle of the 4:3 rectangle of Scenario B dragged up and left at
\* scale 1/2: the rectangle grew and its bottom-right corner stayed
C30_Witness ==
  /\ observed.op = "drag"
  /\ observed.type = "nw"
  /\ observed.locked
  /\ observed.anchor = SceneBRect
  /\ AnchorInBounds
  /\ Gt(emitted.rect.width, observed.anchor.width)
  /\ Add(emitted.rect.x, emitted.rect.width) = R(500)
  /\ Add(emitted.rect.y, emitted.rect.height) = R(350)

(***************************************************************************)
(* A crop session: gestures on the overlay, then Apply / Done              *)
(***************************************************************************)
MaxSessionEvents == 5   \* user events in one run

SessionRatios == {Null, Frac(4, 3)}
SessionScales == {R(1), R(2)}
SessionDragTypes == DragTypes
SessionDown == {<<0, 0>>, <<5, 7>>}
SessionMoves == {<<8, 12>>, <<-12, -8>>}

\* the gesture the events so far leave open: none
Idle == NullObj

\* The editor in crop mode right after a ratio button was clicked on the
\* loaded, rendered 40x30 picture.
InitSession ==
  /\ \E ratio \in SessionRatios :
       config = [INITIAL_CONFIG EXCEPT !.cropRatio = ratio,
                                       !.cropRect = SeedRect(R(40), R(30), ratio)]
  /\ originalImage = "a"
  /\ origDimensions = [width |-> R(40), height |-> R(30)]
  /\ intermediateImage = processImage("a", IntermediateConfig(INITIAL_CONFIG))
  /\ processedImage = processImage("a", INITIAL_CONFIG)
  /\ processedSize = EncodedSize(processImage("a", INITIAL_CONFIG))
  /\ configRef = "object"
  /\ isCropping = TRUE
  /\ aiStatus = "IDLE"
  /\ aiResult = NullObj
  /\ isProcessing = FALSE
  /\ timeoutRef = NoTimer
  /\ isFirstLoadRef = FALSE
  /\ \E scale \in SessionScales :
       viewTransform = [scale |-> scale, x |-> Zero, y |-> Zero]
  /\ isDragging = FALSE
  /\ dragStartRef = [x |-> 0, y |-> 0]
  /\ viewStartRef = [x |-> Zero, y |-> Zero]
  /\ container = StageOfEditor
  /\ canvasOk = TRUE
  /\ InitEnv
  /\ InitOverlay
  /\ emitted = NullObj
  /\ firedSinceChange = <<>>
  /\ userEvents = 0
  /\ observed = [op |-> "none", gesture |-> Idle, x |-> 0, y |-> 0]
  /\ InitFn

\* a user event of the session; gesture is what the events so far say of
\* the overlay: Idle, or the handle, pointer position and rectangle of the
\* pointer-down that no pointer-up has followed yet
Session(A, op, gesture, clientX, clientY) ==
  /\ userEvents < MaxSessionEvents
  /\ userEvents' = userEvents + 1
  /\ A
  /\ observed' = [op |-> op, gesture |-> gesture, x |-> clientX, y |-> clientY]

NextSession ==
  \/ \E type \in SessionDragTypes, p \in SessionDown :
       Session(CropMouseDown(type, p[1], p[2]), "down",
               [type |-> type, x |-> p[1], y |-> p[2], rect |-> config.cropRect],
               p[1], p[2])
  \/ \E p \in SessionMoves :
       Session(MouseMove(p[1], p[2]), "move", observed.gesture, p[1], p[2])
  \/ Session(MouseUp, "up", Idle, 0, 0)
  \/ Session(ExitCrop, "exit", Idle, 0, 0)
  \/ \E t \in timers : Async(TimerFire(t))
  \/ \E j \in inflight : Async(RenderResolve(j))

SpecSession == InitSession /\ [][NextSession]_vars

\* the step is the user event op
Event(op) == userEvents' # userEvents /\ observed'.op = op

C20_CropIsWysiwyg ==
  /\ [](emitted # NullObj => config.cropRect = emitted.rect)
  /\ [][/\ Event("move") /\ observed.gesture # Idle =>
             config' = [config EXCEPT !.cropRect = emitted'.rect]
        /\ Event("exit") => config' = config]_vars

\* crop mode was left after a drag: the rectangle is the last emitted one,
\* not the seed, and its render is scheduled
C20_Witness ==
  /\ ~isCropping
  /\ observed.op = "exit"
  /\ emitted # NullObj
  /\ config.cropRect = emitted.rect
  /\ config.cropRect # SeedRect(R(40), R(30), config.cropRatio)
  /\ \E t \in timers : t.cfg = config

(***************************************************************************)
(* Pan gestures on the stage, from the empty editor                        *)
(***************************************************************************)
MaxPanEvents == 4   \* user events in one run

PanFiles == {f \in Files : f.id = "a"}
PanDown == {<<0, 0>>, <<60, 50>>}
PanMoves == {<<8, 12>>, <<-30, 45>>}
PanWheels == {<<-100, 60, 50>>}

InitPan ==
  /\ InitApp
  /\ InitView
  /\ InitEnv
  /\ container = StageOfEditor
  /\ canvasOk = TRUE
  /\ InitOverlay
  /\ emitted = NullObj
  /\ firedSinceChange = <<>>
  /\ userEvents = 0
  /\ observed = [op |-> "none", gesture |-> Idle, x |-> 0, y |-> 0]
  /\ InitFn

\* a user event on the stage; gesture is what the events so far say of the
\* pan: Idle, or the pointer position and the view translation at the
\* pointer-down that no pointer-up or pointer-leave has followed yet
Pan(A, op, gesture, clientX, clientY) ==
  /\ userEvents < MaxPanEvents
  /\ userEvents' = userEvents + 1
  /\ A
  /\ observed' = [op |-> op, gesture |-> gesture, x |-> clientX, y |-> clientY]

\* a raster is on the stage
RasterExists == processedImage # NullObj \/ intermediateImage # NullObj

NextPan ==
  \/ \E f \in PanFiles : Pan(LoadFile(f), "load", observed.gesture, 0, 0)
  \/ \E p \in PanDown :
       Pan(StageMouseDown(p[1], p[2]), "down",
           IF RasterExists
           THEN [x |-> p[1], y |-> p[2], tx |-> viewTransform.x, ty |-> viewTransform.y]
           ELSE observed.gesture,
           p[1], p[2])
  \/ \E p \in PanMoves : Pan(MouseMove(p[1], p[2]), "move", observed.gesture, p[1], p[2])
  \/ Pan(MouseUp, "up", Idle, 0, 0)
  \/ \E w \in PanWheels :
       Pan(handleWheel(w[1], w[2], w[3]), "wheel", observed.gesture, w[2], w[3])
  \/ Pan(ResetViewButton, "reset", observed.gesture, 0, 0)
  \/ \E l \in imgLoads : Async(MetaOnload(l))
  \/ \E l \in imgLoads : Async(FitOnload(l))
  \/ \E j \in inflight : Async(RenderResolve(j))

SpecPan == InitPan /\ [][NextPan]_vars

\* C22: during a pan gesture (pointer-down on the stage until pointer-up or
\* pointer-leave) each pointer-move sets the view translation to its value
\* at gesture start plus the total unscaled screen displacement of the
\* pointer and leaves the scale unchanged; a pointer-move outside a pan
\* gesture leaves the view transform unchanged; and a pan cannot start when
\* neither a final nor an intermediate raster exists.
C22_PanFollowsPointer ==
  /\ [](isDragging <=> observed.gesture # Idle)
  /\ [][/\ Event("move") /\ observed.gesture # Idle =>
             viewTransform' =
               [ scale |-> viewTransform.scale,
                 x |-> Add(observed.gesture.tx, R(observed'.x - observed.gesture.x)),
                 y |-> Add(observed.gesture.ty, R(observed'.y - observed.gesture.y)) ]
        /\ Event("move") /\ observed.gesture = Idle => viewTransform' = viewTransform
        /\ Event("down") /\ ~RasterExists =>
             ~isDragging' /\ viewTransform' = viewTransform]_vars

\* the second move of a pan that began at (60, 50) after the auto-fit, with a
\* wheel zoom between the two moves
C22_Witness ==
  /\ observed.op = "move"
  /\ observed.gesture # Idle
  /\ observed.gesture.x = 60
  /\ observed.gesture.tx # Zero
  /\ isDragging
  /\ viewTransform.x = Add(observed.gesture.tx, R(observed.x - 60))
  /\ viewTransform.scale # R(1)

(***************************************************************************)
(* The view transform over file loads, edits and renders                   *)
(***************************************************************************)
MaxLifeEvents == 3   \* user events in one run

LifeFiles == {f \in Files : f.ok}
LifeWheels == {<<-100, 60, 50>>}

InitLife ==
  /\ InitApp
  /\ InitView
  /\ InitEnv
  /\ container = StageOfEditor
  /\ canvasOk = TRUE
  /\ InitOverlay
  /\ emitted = NullObj
  /\ firedSinceChange = <<>>
  /\ userEvents = 0
  /\ observed = [op |-> "none", fits |-> 0, raster |-> NullObj]
  /\ InitFn

\* a file load: no auto-fit has been applied for it yet
Loaded(A) ==
  /\ userEvents < MaxLifeEvents
  /\ userEvents' = userEvents + 1
  /\ A
  /\ observed' = [op |-> "load", fits |-> 0, raster |-> NullObj]

\* any other user event
Act(A, op) ==
  /\ userEvents < MaxLifeEvents
  /\ userEvents' = userEvents + 1
  /\ A
  /\ observed' = [observed EXCEPT !.op = op]

\* a completion the browser delivers
Completed(A) ==
  /\ A
  /\ observed' = [observed EXCEPT !.op = "completion"]
  /\ UNCHANGED userEvents

\* the auto-fit's img.onload: one more fit since the load, of the raster img
Fitted(A, img) ==
  /\ A
  /\ observed' = [op |-> "fit", fits |-> observed.fits + 1, raster |-> img]
  /\ UNCHANGED userEvents

NextLife ==
  \/ \E f \in LifeFiles : Loaded(LoadFile(f))
  \/ Act(RotateRight, "rotate")
  \/ \E w \in LifeWheels : Act(handleWheel(w[1], w[2], w[3]), "zoom")
  \/ Act(ResetViewButton, "reset")
  \/ \E t \in timers : Completed(TimerFire(t))
  \/ \E l \in imgLoads : Completed(MetaOnload(l))
  \/ \E l \in imgLoads : Fitted(FitOnload(l), l.img)
  \/ \E j \in inflight : Completed(RenderResolve(j))

SpecLife == InitLife /\ [][NextLife]_vars

\* nothing the editor started is pending
Quiet == timers = {} /\ imgLoads = {} /\ inflight = {}

\* C23: for each file load the auto-fit is applied exactly once, to the
\* intermediate raster of that file; afterwards the view transform changes
\* only on explicit user pan, zoom or reset actions, never as a side effect
\* of a rotation or flip, of a configuration change or of the completion of
\* an intermediate or final render, late completions of renders started
\* before the load included.
C23_ViewTransformLifecycle ==
  /\ [](observed.fits <= 1)
  /\ [](originalImage # NoImage /\ Quiet => observed.fits = 1)
  /\ [](observed.op = "fit" => observed.raster.src = originalImage)
  /\ [][viewTransform' # viewTransform =>
          observed'.op \in {"fit", "zoom", "reset"}]_vars

(***************************************************************************)
(* The seeded crop rectangle and the pipeline's ratio fallback             *)
(***************************************************************************)
MaxSeedDim == 6   \* intermediate widths and heights tried, besides 800x600

SeedSizes == {R(n) : n \in (1..MaxSeedDim) \cup {600, 800}}
SeedRatios == {Null, R(1), Frac(4, 3), Frac(3, 4), Frac(16, 9), Frac(1, 2)}

SeedCalls ==
  { [fn |-> "seed", width |-> w, height |-> h, ratio |-> r] :
      w \in SeedSizes, h \in SeedSizes, r \in SeedRatios }

InitSeed ==
  /\ InitApp
  /\ InitView
  /\ InitEnv
  /\ container = StageOfEditor
  /\ canvasOk = TRUE
  /\ InitOverlay
  /\ InitObs
  /\ call \in SeedCalls
  /\ ret = NullObj

\* handleToggleCrop(true, ratio) over a call.width x call.height intermediate
\* image, and processImage's source rectangle for cropRatio = ratio and no
\* cropRect
ApplySeed ==
  /\ ret = NullObj
  /\ ret' = [ seed |-> SeedRect(call.width, call.height, call.ratio),
              source |-> SourceRect(call.width, call.height,
                                    [INITIAL_CONFIG EXCEPT !.cropRatio = call.ratio]) ]
  /\ UNCHANGED <<appVars, viewVars, envVars, cropVars, obsVars, call>>

SpecSeed == InitSeed /\ [][ApplySeed]_vars

\* C24: for every intermediate size W x H and positive ratio r, the rectangle
\* seeded when entering crop mode with ratio r and the rectangle the pipeline
\* computes for cropRatio = r with no cropRect are the same rectangle: its
\* width/height is r, it is centred in W x H, lies inside it and is the
\* largest such rectangle (its width is W or its height is H).  With a null
\* ratio the seeded rectangle is {0.05W, 0.05H, 0.9W, 0.9H}.
C24_CentredRatioCrop ==
  ret # NullObj =>
    IF call.ratio # Null
    THEN /\ ret.seed = [ x |-> ret.source.sx, y |-> ret.source.sy,
                         width |-> ret.source.sWidth, height |-> ret.source.sHeight ]
         /\ Div(ret.seed.width, ret.seed.height) = call.ratio
         /\ Add(Add(ret.seed.x, ret.seed.width), ret.seed.x) = call.width
         /\ Add(Add(ret.seed.y, ret.seed.height), ret.seed.y) = call.height
         /\ Ge(ret.seed.x, Zero) /\ Ge(ret.seed.y, Zero)
         /\ Le(Add(ret.seed.x, ret.seed.width), call.width)
         /\ Le(Add(ret.seed.y, ret.seed.height), call.height)
         /\ ret.seed.width = call.width \/ ret.seed.height = call.height
    ELSE ret.seed = [ x |-> Div(call.width, R(20)),
                      y |-> Div(call.height, R(20)),
                      width |-> Div(Mul(call.width, R(9)), R(10)),
                      height |-> Div(Mul(call.height, R(9)), R(10)) ]

\* 16:9 in 800x600: the rectangle is 800 x 450 at (0, 75), from both
C24_Witness ==
  /\ ret # NullObj
  /\ call.width = R(800) /\ call.height = R(600)
  /\ call.ratio = Frac(16, 9)
  /\ ret.seed = [x |-> Zero, y |-> R(75), width |-> R(800), height |-> R(450)]
  /\ ret.source.sy = R(75)

(***************************************************************************)
(* Analysis requests, edits and file loads over a loaded image             *)
(***************************************************************************)
MaxAIEvents == 4   \* user events in one run

AIFiles == {f \in Files : f.id \in {"a", "corrupt"}}
AIFormats == {"image/png"}
AIRatios == {Null}

\* a user event
Step(A, op) ==
  /\ userEvents < MaxAIEvents
  /\ userEvents' = userEvents + 1
  /\ A
  /\ observed' = [op |-> op, after |-> observed.op]

\* a completion; job is the promise that settled, if one did
Settle(A, op, job) ==
  /\ A
  /\ observed' = [op |-> op, job |-> job]
  /\ UNCHANGED userEvents

NextAI ==
  \/ \E f \in AIFiles : Step(LoadFile(f), "load")
  \/ Step(DropOther, "drop")
  \/ Step(Analyze, "analyze")
  \/ \E fmt \in AIFormats : Step(SetFormat(fmt), "edit")
  \/ \E r \in AIRatios : Step(EnterCrop(r), "crop")
  \/ \E t \in timers : Settle(TimerFire(t), "timer", NullObj)
  \/ \E l \in imgLoads : Settle(MetaOnload(l), "onload", NullObj)
  \/ \E l \in imgLoads : Settle(ImgError(l), "onerror", NullObj)
  \/ \E j \in inflight : Settle(RenderResolve(j), "rendered", j)
  \/ \E j \in inflight : Settle(RenderReject(j), "render failed", j)
  \/ \E j \in inflight : Settle(AnalysisResolve(j), "analysed", j)
  \/ \E j \in inflight : Settle(AnalysisReject(j), "analysis failed", j)

SpecAI == InitTurn /\ [][NextAI]_vars

\* the processImage promises pending
Renders(jobs) == {j \in jobs : j.kind # "analysis"}

\* the step is the failure of an analysis request
AnalysisFailed ==
  /\ observed'.op = "analysis failed"
  /\ observed'.job \in inflight \ inflight'

\* C25: when the AI analysis call fails, the AI status becomes ERROR and the
\* configuration, the final raster, the intermediate raster, the view
\* transform and any previously stored analysis result are unchanged; no
\* render is scheduled or cancelled by it.
C25_AnalysisFailureIsolated ==
  [][AnalysisFailed =>
       /\ aiStatus' = "ERROR"
       /\ config' = config
       /\ processedImage' = processedImage
       /\ intermediateImage' = intermediateImage
       /\ viewTransform' = viewTransform
       /\ aiResult' = aiResult
       /\ timers' = timers
       /\ Renders(inflight') = Renders(inflight)]_vars

\* a regeneration failed while a render of an edit was scheduled: the result
\* of the first analysis is still stored
C25_Witness ==
  /\ observed.op = "analysis failed"
  /\ aiStatus = "ERROR"
  /\ aiResult # NullObj
  /\ timers # {}
  /\ config.format = "image/png"


\* C26: errors are recoverable by retrying the triggering user action without
\* loading a new file: after an analysis failure, also one with no earlier
\* result (status ERROR, result null), the analyze action can be invoked
\* again, and after a failed render a further configuration edit schedules a
\* new render (outside crop mode, where the final render is suspended).
C26_RecoverableByRetry ==
  /\ [](aiStatus = "ERROR" /\ ~isCropping => AnalyzeShown)
  /\ [][observed.op = "render failed" /\ observed'.op = "edit" /\ ~isCropping =>
          /\ timers' # {}
          /\ \A t \in timers' : t.src = originalImage' /\ t.cfg = config']_vars


\* C27: after a file is loaded through upload or drop, whatever the prior
\* state, the configuration equals the defaults (rotation 0, no flips,
\* cropRect and cropRatio null, targets 0, quality 0.9, format jpeg), crop
\* mode is off, the stored analysis result is null and the AI status is IDLE;
\* a dropped file whose type is not an image changes no state.
C27_FileLoadResetsSession ==
  /\ [][observed'.op = "load" /\ userEvents' # userEvents =>
          /\ config'.rotation = 0
          /\ ~config'.flipHorizontal /\ ~config'.flipVertical
          /\ config'.cropRect = NullObj /\ config'.cropRatio = Null
          /\ config'.targetWidth = Zero /\ config'.targetHeight = Zero
          /\ config'.quality = Frac(9, 10)
          /\ config'.format = "image/jpeg"
          /\ ~isCropping'
          /\ aiResult' = NullObj
          /\ aiStatus' = "IDLE"]_vars
  /\ [][observed'.op = "drop" /\ userEvents' # userEvents =>
          UNCHANGED <<appVars, viewVars, envVars, cropVars>>]_vars

\* a file was loaded right after an edit or an entry into crop mode
C27_Witness ==
  /\ observed.op = "load"
  /\ observed.after \in {"crop", "edit"}
  /\ config = INITIAL_CONFIG
  /\ aiStatus = "IDLE"
  /\ processedImage # NullObj


(***************************************************************************)
(* src/types.ts:60-144: invocations of processImage while the editor runs   *)
(***************************************************************************)
MaxInvocations == 3   \* invocations recorded in one run
MaxPureEvents == 1    \* user events in one run

PureConfigs ==
  { INITIAL_CONFIG,
    [INITIAL_CONFIG EXCEPT !.rotation = 90, !.format = "image/png",
                           !.cropRatio = R(1), !.targetWidth = R(200)] }
PureCalls == {[src |-> f.id, cfg |-> cfg] : f \in AIFiles, cfg \in PureConfigs}

Invocations == IF "log" \in DOMAIN ret THEN ret.log ELSE <<>>

\* the slip of encoding in the editor's current format
Invoke_EditorFormat(c) ==
  /\ Len(Invocations) < MaxInvocations
  /\ \E result \in {processImage(c.src, c.cfg)} :
       ret' = [log |-> Append(Invocations,
                     [ src |-> c.src, cfg |-> c.cfg,
                       out |-> IF IsError(result) THEN result
                               ELSE [result EXCEPT !.format = config.format],
                       srcAfter |-> c.src, cfgAfter |-> c.cfg,
                       at |-> userEvents ])]
  /\ call' = c
  /\ UNCHANGED <<appVars, viewVars, envVars, cropVars, obsVars>>
\* one invocation processImage(c.src, c.cfg), run to its end: the function
\* reads its arguments, the decoded image and two canvases of its own, and
\* assigns to none of its arguments
Invoke(c) ==
  /\ Len(Invocations) < MaxInvocations
  /\ ret' = [log |-> Append(Invocations,
                   [ src |-> c.src, cfg |-> c.cfg,
                     out |-> processImage(c.src, c.cfg),
                     srcAfter |-> c.src, cfgAfter |-> c.cfg,
                     at |-> userEvents ])]
  /\ call' = c
  /\ UNCHANGED <<appVars, viewVars, envVars, cropVars, obsVars>>

\* what the editor does between two invocations
Meanwhile(A) ==
  /\ userEvents < MaxPureEvents
  /\ userEvents' = userEvents + 1
  /\ A
  /\ UNCHANGED observed

NextPure ==
  \/ \E c \in PureCalls : Invoke(c)
  \/ \E fmt \in AIFormats : Meanwhile(SetFormat(fmt))
  \/ Meanwhile(RotateRight)
  \/ \E t \in timers : TimerFire(t) /\ UNCHANGED <<userEvents, observed>>
  \/ \E j \in inflight : RenderResolve(j) /\ UNCHANGED <<userEvents, observed>>

SpecPure == InitTurn /\ [][NextPure]_vars

EdgeRects ==
  { NullObj,
    [x |-> R(5), y |-> R(5), width |-> R(20), height |-> R(10)],
    [x |-> R(5), y |-> R(5), width |-> Zero, height |-> R(10)],
    [x |-> R(5), y |-> R(5), width |-> R(20), height |-> Zero],
    [x |-> R(25), y |-> R(5), width |-> R(-20), height |-> R(10)] }
EdgeTargets == {Zero, R(200)}
EdgeCalls ==
  { [ fn |-> "processImage",
      src |-> f.id,
      cfg |-> [INITIAL_CONFIG EXCEPT !.rotation = rotation,
                                     !.cropRect = rect,
                                     !.targetWidth = tw,
                                     !.targetHeight = th] ] :
      f \in Files, rotation \in {0, 90}, rect \in EdgeRects,
      tw \in EdgeTargets, th \in EdgeTargets }

InitEdge ==
  /\ InitApp
  /\ InitView
  /\ InitEnv
  /\ container = StageOfEditor
  /\ canvasOk = TRUE
  /\ InitOverlay
  /\ InitObs
  /\ call \in EdgeCalls
  /\ ret = NullObj

SpecEdge == InitEdge /\ [][ApplyRender]_vars

\* finalWidth x finalHeight of a call (types.ts:127-128)
Destination(imageSrc, cfg) ==
  LET inter == getTransformedDimensions(R(FileOf(imageSrc).width),
                                        R(FileOf(imageSrc).height), cfg.rotation)
      s == SourceRect(inter.width, inter.height, cfg)
  IN  [ width |-> FinalExtent(cfg.targetWidth, s.sWidth),
        height |-> FinalExtent(cfg.targetHeight, s.sHeight) ]

\* C29: processImage fails (yields no raster) when the source cannot be
\* decoded, and fails when the destination raster would have zero or negative
\* width or height (for example a crop rectangle of zero width with no target
\* size); it never returns an output artifact for a zero-sized destination.
C29_PipelineFailureConditions ==
  ret # NullObj =>
    /\ ~FileOf(call.src).ok => IsError(ret.final)
    /\ \/ Le(Destination(call.src, call.cfg).width, Zero)
       \/ Le(Destination(call.src, call.cfg).height, Zero)
       => IsError(ret.final)
    /\ ~IsError(ret.final) => ret.final.width > 0 /\ ret.final.height > 0


(***************************************************************************)
(* Renders that complete out of order                                      *)
(***************************************************************************)
\* the updateIntermediateImage calls not yet settled, and the loads whose
\* onload will make one
IntermediatePending ==
  {j \in inflight : j.kind = "intermediate"} \cup {l \in imgLoads : l.kind = "meta"}

\* the intermediate raster of a source under a config
FreshIntermediate(src, cfg) == processImage(src, IntermediateConfig(cfg))

\* transformedDims, the bounds handed to the crop overlay (App.tsx:425-426)
transformedDims ==
  getTransformedDimensions(origDimensions.width, origDimensions.height, config.rotation)

\* C31: once all in-flight intermediate renders have completed, the stored
\* intermediate raster is the one rendered from the currently loaded source
\* with the current rotation and flips, so that the bounds the crop overlay
\* clamps against equal the dimensions of the intermediate raster displayed
\* underneath it; an intermediate render started earlier never overwrites one
\* started later.
C31_IntermediateFreshness ==
  /\ [](originalImage # NoImage /\ IntermediatePending = {} =>
          /\ intermediateImage = FreshIntermediate(originalImage, config)
          /\ transformedDims = [ width |-> R(intermediateImage.width),
                                 height |-> R(intermediateImage.height) ])
  /\ [][/\ intermediateImage = FreshIntermediate(originalImage, config)
        /\ IntermediateJob(originalImage, config) \notin inflight
        /\ originalImage' = originalImage
        /\ config' = config
        => intermediateImage' = intermediateImage]_vars


\* a debounced render waits for its timer, or a final render is running
FinalPending ==
  \/ timers # {}
  \/ \E j \in inflight : j.kind = "final"

\* C32: outside crop mode, whenever a debounced render is pending or a final
\* render is in flight, isProcessing is true; in particular the completion of
\* an older in-flight render does not clear the indicator while a newer
\* render is still pending or running.
C32_ProcessingIndicator ==
  /\ [](~isCropping /\ FinalPending => isProcessing)
  /\ [][isProcessing /\ ~isProcessing' /\ ~isCropping' => ~FinalPending']_vars


\* the analyzeImageWithGemini calls not yet settled
AnalysisPending == {j \in inflight : j.kind = "analysis"}

\* C33: the AI status is ANALYZING exactly while an analysis request is in
\* flight, and at most one analysis request is in flight at any time (the
\* analyze/regenerate action cannot start a second request before the first
\* has completed).
C33_StatusTracksRequest ==
  /\ aiStatus = "ANALYZING" <=> AnalysisPending # {}
  /\ Cardinality(AnalysisPending) <= 1


\* C34: a stored analysis result always belongs to the currently loaded source
\* image; the completion of an analysis request issued before the latest file
\* load never sets the stored result or changes the AI status of the new
\* session.
C34_NoStaleAnalysis ==
  /\ [](aiResult # NullObj => aiResult.of.src = originalImage)
  /\ [][/\ observed'.op \in {"analysed", "analysis failed"}
        /\ observed'.job \in AnalysisPending
        /\ observed'.job.img.src # originalImage
        => aiResult' = aiResult /\ aiStatus' = aiStatus]_vars


(***************************************************************************)
(* Wheel zooms in the middle of a pan, on the loaded and fitted image      *)
(***************************************************************************)
ComposeDeltas == {-100, 100}

\* the pan the events so far make, and where the pointer is
Gesture == IF "gesture" \in DOMAIN observed THEN observed.gesture ELSE Idle
PointerAt ==
  IF "x" \in DOMAIN observed THEN [x |-> observed.x, y |-> observed.y]
  ELSE [x |-> 0, y |-> 0]

\* the stage's events; the wheel turns where the pointer is
NextCompose ==
  \/ \E p \in PanDown :
       Pan(StageMouseDown(p[1], p[2]), "down",
           [x |-> p[1], y |-> p[2], tx |-> viewTransform.x, ty |-> viewTransform.y],
           p[1], p[2])
  \/ \E p \in PanMoves : Pan(MouseMove(p[1], p[2]), "move", Gesture, p[1], p[2])
  \/ Pan(MouseUp, "up", Idle, PointerAt.x, PointerAt.y)
  \/ \E deltaY \in ComposeDeltas :
       Pan(handleWheel(deltaY, PointerAt.x, PointerAt.y), "wheel", Gesture,
           PointerAt.x, PointerAt.y)

SpecCompose == InitTurn /\ [][NextCompose]_vars

\* the content-space point shown at a stage position
ContentUnder(vt, px, py) ==
  [ x |-> Div(Sub(R(px), vt.x), vt.scale),
    y |-> Div(Sub(R(py), vt.y), vt.scale) ]

\* C35: throughout a pan gesture, for any interleaving of pointer-moves and
\* wheel zooms, the content-space point under the pointer stays the point
\* that was under it at pointer-down; a wheel zoom in the middle of a pan does
\* not make the next pointer-move discard the translation the zoom computed.
C35_PanAndZoomCompose ==
  [][Gesture # Idle /\ observed'.op \in {"move", "wheel"} =>
       ContentUnder(viewTransform', observed'.x, observed'.y)
         = ContentUnder(viewTransform, observed.x, observed.y)]_vars


(***************************************************************************)
(* The panel's Reset after rotations, edits and crop mode                  *)
(***************************************************************************)
NextReset ==
  \/ Step(RotateRight, "rotate")
  \/ Step(RotateLeft, "rotate")
  \/ \E fmt \in AIFormats : Step(SetFormat(fmt), "edit")
  \/ \E r \in AIRatios : Step(EnterCrop(r), "crop")
  \/ Step(PanelReset, "panel reset")
  \/ \E t \in timers : Settle(TimerFire(t), "timer", NullObj)
  \/ \E j \in inflight : Settle(RenderResolve(j), "rendered", j)

SpecReset == InitTurn /\ [][NextReset]_vars

\* C36: after the Reset action, from any state, the configuration equals the
\* defaults, crop mode is off, and the view transform is the fit of the
\* intermediate dimensions of the reset configuration (rotation 0, i.e. the
\* source's natural width and height), not of the dimensions under the
\* rotation that was in effect before the reset.
C36_PanelReset ==
  [][observed'.op = "panel reset" /\ userEvents' # userEvents =>
       /\ config' = INITIAL_CONFIG
       /\ ~isCropping'
       /\ viewTransform' = CentredFit(origDimensions.width, origDimensions.height,
                                      R(container.width), R(container.height))]_vars


(***************************************************************************)
(* Crop gestures whose pointer comes back to where it went down            *)
(***************************************************************************)
PathMoves == SessionMoves \cup SessionDown \cup {<<-40, -40>>}

NextPath ==
  \/ \E type \in SessionDragTypes, p \in SessionDown :
       Session(CropMouseDown(type, p[1], p[2]), "down",
               [type |-> type, x |-> p[1], y |-> p[2], rect |-> config.cropRect],
               p[1], p[2])
  \/ \E p \in PathMoves :
       Session(MouseMove(p[1], p[2]), "move", observed.gesture, p[1], p[2])
  \/ Session(MouseUp, "up", Idle, 0, 0)

SpecPath == InitSession /\ [][NextPath]_vars

\* the rectangle a single pointer-move from the pointer-down position
\* straight to the current one emits
DirectRect ==
  handleWindowMove(observed.gesture.rect, observed.gesture.type,
                   toImageDelta(R(observed.x - observed.gesture.x), viewTransform.scale),
                   toImageDelta(R(observed.y - observed.gesture.y), viewTransform.scale),
                   imageDimensions, config.cropRatio)

ExclusiveDragTypes == {"move", "se"}
ExclusiveDown == {<<5, 7>>}

\* the pointer-down that no pointer-up has followed yet was on the overlay
OnOverlay(type, clientX, clientY) ==
  [type |-> type, x |-> clientX, y |-> clientY, rect |-> config.cropRect]

NextExclusive ==
  \/ \E type \in ExclusiveDragTypes, p \in ExclusiveDown :
       Session(CropMouseDown(type, p[1], p[2]), "down on overlay",
               OnOverlay(type, p[1], p[2]), p[1], p[2])
  \/ \E type \in ExclusiveDragTypes, p \in ExclusiveDown :
       Session(TouchStart(p[1], p[2]), "touch on overlay",
               OnOverlay(type, p[1], p[2]), p[1], p[2])
  \/ \E p \in ExclusiveDown :
       Session(StageMouseDown(p[1], p[2]), "down on stage", observed.gesture, p[1], p[2])
  \/ \E p \in SessionMoves :
       Session(MouseMove(p[1], p[2]), "move", observed.gesture, p[1], p[2])
  \/ \E p \in SessionMoves :
       Session(TouchMove(p[1], p[2]), "move", observed.gesture, p[1], p[2])
  \/ Session(MouseUp, "up", Idle, 0, 0)
  \/ Session(TouchEnd, "up", Idle, 0, 0)

SpecExclusive == InitSession /\ [][NextExclusive]_vars

\* C38: a pointer-down on the crop rectangle body or on a handle starts a crop
\* drag and never a pan gesture, and during a crop drag pointer-moves leave
\* the view transform (scale, x, y) unchanged; conversely a pan gesture never
\* changes config.cropRect.
C38_CropDragAndPanExclusive ==
  [][/\ userEvents' # userEvents
        /\ observed'.op \in {"down on overlay", "touch on overlay"}
        => cropIsDragging' /\ isDragging' = isDragging
     /\ Event("move") /\ cropIsDragging => viewTransform' = viewTransform
     /\ isDragging => config'.cropRect = config.cropRect]_vars

=============================================================================
